---- MODULE Spec2Model ----
(***************************************************************************)
(* Model of the edge agent (src/edge-agent/edge_agent.py): the exec, files *)
(* and forward request handlers, the policy checks they apply and the      *)
(* effects they have on processes, the file store and outbound sockets.    *)
(*                                                                         *)
(* Strings are sequences of one-character strings, so that basename,       *)
(* normpath, startswith and slicing are computed as the code computes      *)
(* them.  JSON values are records [t, s, l]: t the JSON type, s the text   *)
(* of a string, l the elements of a list.                                  *)
(***************************************************************************)
EXTENDS Integers, Sequences, FiniteSets, TLC

VARIABLES
    ALLOWLIST,      \* the command allow-list (a list of command names)
    execConns,      \* the connections accepted by the exec server, in order
    filesConns,     \* the connections accepted by the files server, in order
    fsDirs,         \* the file store: the directories that exist
    fsFiles,        \* the file store: path -> content of the files that exist
    OPS_FORWARD_ALLOWED_HOSTS,          \* the forward host allow-list
    OPS_FORWARD_ALLOWED_PORTS,          \* the forward port allow-list
    OPS_FORWARD_DEFAULT_TARGET_HOST,    \* the configured forward target
    OPS_FORWARD_DEFAULT_TARGET_PORT,
    fwdConns,       \* the connections accepted by the forward server, in order
    main,           \* the position of main(): [at, k], k the server it is at
    shutdown_event, \* the global threading.Event
    servers         \* the three ThreadedTCPServer objects and their threads

fwdConfig == <<OPS_FORWARD_ALLOWED_HOSTS, OPS_FORWARD_ALLOWED_PORTS,
               OPS_FORWARD_DEFAULT_TARGET_HOST, OPS_FORWARD_DEFAULT_TARGET_PORT>>
execVars == <<ALLOWLIST, execConns>>
filesVars == <<filesConns, fsDirs, fsFiles>>
fwdVars == <<fwdConfig, fwdConns>>
mainVars == <<main, shutdown_event, servers>>
vars == <<execVars, filesVars, fwdVars, mainVars>>

(***************************************************************************)
(* Bounds of the model.                                                    *)
(***************************************************************************)
MaxExecConns == 1       \* connections accepted by the exec server
MaxFilesConns == 2      \* connections accepted by the files server
MaxJsonConns == 1       \* connections accepted by the exec and files servers together
MaxFwdConns == 1        \* connections accepted by the forward server
MaxFwdBytes == 2        \* bytes each side of a forward session sends
MaxOut == 3             \* longest output a process writes to one stream
MaxOverrun == 1         \* seconds a timed-out command may take to be killed

(***************************************************************************)
(* Configuration (read from the environment at import time).               *)
(***************************************************************************)
TIMEOUT_SECS == 2
MAX_OUTPUT_CHARS == 2

\* Ports and hosts of the forward configuration.
HttpAltPort == 8080
OtherPort == HttpAltPort + 1

DefaultForwardHosts == <<"127.0.0.1", "localhost">>
DefaultForwardPorts == <<22, 80, 443, HttpAltPort, 5900>>

\* Command names used by the model.
ls == <<"l", "s">>
echo == <<"e", "c", "h", "o">>
uname == <<"u", "n", "a", "m", "e">>
whoami == <<"w", "h", "o", "a", "m", "i">>
rm == <<"r", "m">>

DEFAULT_ALLOWLIST == <<ls, uname, whoami, echo>>

\* The allow-lists the environment may configure: the default, and one that
\* (mis)lists a command by path.
AllowlistConfigs == {DEFAULT_ALLOWLIST, <<ls, <<"b", "/", "l", "s">> >>}

(***************************************************************************)
(* Python values.                                                          *)
(***************************************************************************)
JNull == [t |-> "null", s |-> <<>>, l |-> <<>>]
JAbsent == [t |-> "absent", s |-> <<>>, l |-> <<>>]
JNum(nonzero) == [t |-> IF nonzero THEN "num" ELSE "zero", s |-> <<>>, l |-> <<>>]
JStr(chars) == [t |-> "str", s |-> chars, l |-> <<>>]
JList(elems) == [t |-> "list", s |-> <<>>, l |-> elems]

\* bool(v)
Truthy(v) ==
    CASE v.t = "str" -> v.s # <<>>
      [] v.t = "list" -> v.l # <<>>
      [] v.t = "num" -> TRUE
      [] OTHER -> FALSE

\* x in lst, for a list of strings
InList(x, lst) == \E i \in 1..Len(lst) : lst[i] = x

\* dict.get(key) and dict.get(key, []) on a parsed request object
Get(req, key) == IF req[key].t = "absent" THEN JNull ELSE req[key]
GetOrEmptyList(req, key) == IF req[key].t = "absent" THEN JList(<<>>) ELSE req[key]

\* a[:n]
Slice(a, n) == SubSeq(a, 1, IF Len(a) < n THEN Len(a) ELSE n)

IsPrefix(a, b) == Len(a) <= Len(b) /\ SubSeq(b, 1, Len(a)) = a

(***************************************************************************)
(* validate_command                                                        *)
(***************************************************************************)
\* index of the last "/" of p, 0 when there is none (str.rfind + 1)
LastSlash(p) ==
    LET at == {i \in 1..Len(p) : p[i] = "/"}
    IN  IF at = {} THEN 0 ELSE CHOOSE i \in at : \A j \in at : j <= i

\* os.path.basename
basename(p) == SubSeq(p, LastSlash(p) + 1, Len(p))

MsgCmdEmpty == "cmd must be a non-empty string"
MsgBareName == "cmd must be a bare command name (no paths)"
MsgNotPermitted == "command '{base}' not permitted"
MsgArgsNotList == "args must be a list of strings"
MsgArgNotStr == "all args must be strings"
MsgArgInvalid == "invalid argument value"

MAX_ARG_LEN == 4096

BadArg_OffByOne(a) == a.t # "str" \/ (\E k \in 1..Len(a.s) : a.s[k] = "NUL") \/ Len(a.s) >= MAX_ARG_LEN

BadArg(a) == a.t # "str" \/ (\E k \in 1..Len(a.s) : a.s[k] = "NUL") \/ Len(a.s) > MAX_ARG_LEN

\* the for loop over args: the first offending element decides the error
ArgsError(l) ==
    LET bad == {i \in 1..Len(l) : BadArg(l[i])}
    IN  IF bad = {} THEN ""
        ELSE LET i == CHOOSE k \in bad : \A j \in bad : k <= j
             IN  IF l[i].t # "str" THEN MsgArgNotStr ELSE MsgArgInvalid

Raise(msg) == [ok |-> FALSE, msg |-> msg, base |-> <<>>]
Return(base) == [ok |-> TRUE, msg |-> "", base |-> base]

validate_command_NoAllowlist(cmd, args) ==
    IF ~Truthy(cmd) \/ cmd.t # "str" THEN Raise(MsgCmdEmpty)
    ELSE IF basename(cmd.s) # cmd.s THEN Raise(MsgBareName)
    ELSE Return(basename(cmd.s))

validate_command_AllowlistFirst(cmd, args) ==
    IF ~Truthy(cmd) \/ cmd.t # "str" THEN Raise(MsgCmdEmpty)
    ELSE IF ~InList(basename(cmd.s), ALLOWLIST) THEN Raise(MsgNotPermitted)
    ELSE IF basename(cmd.s) # cmd.s THEN Raise(MsgBareName)
    ELSE Return(basename(cmd.s))

validate_command(cmd, args) ==
    IF ~Truthy(cmd) \/ cmd.t # "str" THEN Raise(MsgCmdEmpty)
    ELSE LET base == basename(cmd.s) IN
         IF base # cmd.s THEN Raise(MsgBareName)
         ELSE IF ~InList(base, ALLOWLIST) THEN Raise(MsgNotPermitted)
         ELSE IF args.t = "null" THEN Return(base)
         ELSE IF args.t # "list" THEN Raise(MsgArgsNotList)
         ELSE IF ArgsError(args.l) # "" THEN Raise(ArgsError(args.l))
         ELSE Return(base)

(***************************************************************************)
(* Exec responses.  keys is the set of keys the response object has; the   *)
(* stdout/stderr of a result are Python str or bytes objects.              *)
(***************************************************************************)
Text(chars) == [t |-> "str", v |-> chars]
Bytes(chars) == [t |-> "bytes", v |-> chars]

NoResult ==
    [keys |-> {}, ok |-> FALSE, error |-> "", message |-> "", exit_code |-> 0,
     stdout |-> Text(<<>>), stderr |-> Text(<<>>), duration_ms |-> 0]

ErrorResponse(code) ==
    [NoResult EXCEPT !.keys = {"ok", "error"}, !.error = code]

ErrorMessage(code, msg) ==
    [NoResult EXCEPT !.keys = {"ok", "error", "message"}, !.error = code, !.message = msg]

MsgTimeout == "command exceeded {TIMEOUT_SECS}s"
MsgException == "str(e)"

\* json.dumps(obj): a bytes value is not JSON serializable (TypeError)
Serializable(resp) ==
    /\ ("stdout" \in resp.keys => resp.stdout.t = "str")
    /\ ("stderr" \in resp.keys => resp.stderr.t = "str")

(***************************************************************************)
(* run_command.  The process itself is the environment: whether it can be  *)
(* spawned, what it writes, when and how it ends.                          *)
(***************************************************************************)
\* The text a process writes to a stream, by its length.
OutChars == <<"a", "b", "c", "d", "e", "f">>
OutText(n) == [i \in 1..n |-> OutChars[i]]

\* the process ended within the timeout
\* a run_command with one limit for the two streams together
run_command_Completed_SharedLimit(rc, out, err, secs) ==
    [keys |-> {"ok", "exit_code", "stdout", "stderr", "duration_ms"},
     ok |-> TRUE, error |-> "", message |-> "", exit_code |-> rc,
     stdout |-> Text(Slice(out, MAX_OUTPUT_CHARS)),
     stderr |-> Text(Slice(err, MAX_OUTPUT_CHARS - Len(Slice(out, MAX_OUTPUT_CHARS)))),
     duration_ms |-> secs * 1000]

run_command_Completed(rc, out, err, secs) ==
    [keys |-> {"ok", "exit_code", "stdout", "stderr", "duration_ms"},
     ok |-> TRUE, error |-> "", message |-> "", exit_code |-> rc,
     stdout |-> Text(Slice(out, MAX_OUTPUT_CHARS)),
     stderr |-> Text(Slice(err, MAX_OUTPUT_CHARS)),
     duration_ms |-> secs * 1000]

\* TimeoutExpired.stdout / .stderr: None when nothing was read from the
\* stream, else the bytes read so far, undecoded also under text=True.
PartialOutput(chars) == IF chars = <<>> THEN Text(<<>>) ELSE Bytes(Slice(chars, MAX_OUTPUT_CHARS))

\* subprocess.TimeoutExpired
run_command_TimedOut(out, err, secs) ==
    [keys |-> {"ok", "error", "message", "stdout", "stderr", "duration_ms"},
     ok |-> FALSE, error |-> "timeout", message |-> MsgTimeout, exit_code |-> 0,
     stdout |-> PartialOutput(out),
     stderr |-> PartialOutput(err),
     duration_ms |-> secs * 1000]

\* any other exception of subprocess.run, or of building [cmd, *args]
run_command_Failed(secs) ==
    [keys |-> {"ok", "error", "message", "duration_ms"},
     ok |-> FALSE, error |-> "exec_error", message |-> MsgException, exit_code |-> 0,
     stdout |-> Text(<<>>), stderr |-> Text(<<>>), duration_ms |-> secs * 1000]

(***************************************************************************)
(* Paths (posixpath) and _safe_join                                        *)
(***************************************************************************)
OPS_FILES_BASE_DIR == <<"/", "v", "/", "o">>

dotdot == <<".", ".">>

StartsWith(a, prefix) == IsPrefix(prefix, a)

\* str.split("/")
RECURSIVE Split(_)
Split(p) ==
    LET at == {i \in 1..Len(p) : p[i] = "/"}
    IN  IF at = {} THEN <<p>>
        ELSE LET i == CHOOSE k \in at : \A j \in at : k <= j
             IN  <<SubSeq(p, 1, i - 1)>> \o Split(SubSeq(p, i + 1, Len(p)))

\* "/".join(comps)
RECURSIVE JoinComps(_)
JoinComps(comps) ==
    IF comps = <<>> THEN <<>>
    ELSE IF Len(comps) = 1 THEN comps[1]
    ELSE comps[1] \o <<"/">> \o JoinComps(Tail(comps))

\* the loop of posixpath.normpath over the components
RECURSIVE NormComps(_, _, _)
NormComps(comps, acc, initial_slashes) ==
    IF comps = <<>> THEN acc
    ELSE LET comp == Head(comps)
             rest == Tail(comps)
         IN  IF comp = <<>> \/ comp = <<".">>
             THEN NormComps(rest, acc, initial_slashes)
             ELSE IF \/ comp # dotdot
                     \/ (initial_slashes = 0 /\ acc = <<>>)
                     \/ (acc # <<>> /\ acc[Len(acc)] = dotdot)
             THEN NormComps(rest, Append(acc, comp), initial_slashes)
             ELSE IF acc # <<>>
             THEN NormComps(rest, SubSeq(acc, 1, Len(acc) - 1), initial_slashes)
             ELSE NormComps(rest, acc, initial_slashes)

\* os.path.normpath
normpath(path) ==
    IF path = <<>> THEN <<".">>
    ELSE LET initial_slashes ==
                 IF ~StartsWith(path, <<"/">>) THEN 0
                 ELSE IF StartsWith(path, <<"/", "/">>) /\ ~StartsWith(path, <<"/", "/", "/">>) THEN 2
                 ELSE 1
             body == JoinComps(NormComps(Split(path), <<>>, initial_slashes))
             out == [i \in 1..initial_slashes |-> "/"] \o body
         IN  IF out = <<>> THEN <<".">> ELSE out

\* os.path.join(a, b)
join(a, b) ==
    IF StartsWith(b, <<"/">>) THEN b
    ELSE IF a = <<>> \/ a[Len(a)] = "/" THEN a \o b
    ELSE a \o <<"/">> \o b

\* os.path.abspath of a path that is absolute already
abspath(path) == normpath(path)

\* os.path.dirname
dirname(p) ==
    LET head == SubSeq(p, 1, LastSlash(p))
    IN  IF head # <<>> /\ \E k \in 1..Len(head) : head[k] # "/"
        THEN SubSeq(head, 1, Len(head) - 1)
        ELSE head

Forbidden == [ok |-> FALSE, target |-> <<>>]
Resolved(target) == [ok |-> TRUE, target |-> target]

_safe_join_PrefixOnly(base, rel_path) ==
    LET b == abspath(base)
        target == normpath(join(b, rel_path))
    IN  IF ~StartsWith(target, b) /\ target # b THEN Forbidden ELSE Resolved(target)

_safe_join(base, rel_path) ==
    LET b == abspath(base)
        target == normpath(join(b, rel_path))
    IN  IF ~StartsWith(target, b \o <<"/">>) /\ target # b THEN Forbidden ELSE Resolved(target)

(***************************************************************************)
(* base64 and sha256.  Bytes are numbers 0..255, base64 text is a string.  *)
(***************************************************************************)
B64Alphabet == <<
     "A", "B", "C", "D", "E", "F", "G", "H", "I", "J", "K", "L", "M", "N", "O", "P",
     "Q", "R", "S", "T", "U", "V", "W", "X", "Y", "Z", "a", "b", "c", "d", "e", "f",
     "g", "h", "i", "j", "k", "l", "m", "n", "o", "p", "q", "r", "s", "t", "u", "v",
     "w", "x", "y", "z", "0", "1", "2", "3", "4", "5", "6", "7", "8", "9", "+", "/">>

B64Index(ch) == (CHOOSE k \in 1..Len(B64Alphabet) : B64Alphabet[k] = ch) - 1
IsB64Char(ch) == \E k \in 1..Len(B64Alphabet) : B64Alphabet[k] = ch

\* base64.b64encode
RECURSIVE b64encode(_)
b64encode(bytes) ==
    LET ch(n) == B64Alphabet[n + 1] IN
    IF bytes = <<>> THEN <<>>
    ELSE IF Len(bytes) = 1 THEN
        <<ch(bytes[1] \div 4), ch((bytes[1] % 4) * 16), "=", "=">>
    ELSE IF Len(bytes) = 2 THEN
        <<ch(bytes[1] \div 4), ch((bytes[1] % 4) * 16 + bytes[2] \div 16),
          ch((bytes[2] % 16) * 4), "=">>
    ELSE
        <<ch(bytes[1] \div 4), ch((bytes[1] % 4) * 16 + bytes[2] \div 16),
          ch((bytes[2] % 16) * 4 + bytes[3] \div 64), ch(bytes[3] % 64)>>
        \o b64encode(SubSeq(bytes, 4, Len(bytes)))

\* the bytes of a run of 6-bit values
RECURSIVE DecodeSextets(_)
DecodeSextets(v) ==
    IF Len(v) < 2 THEN <<>>
    ELSE IF Len(v) = 2 THEN <<v[1] * 4 + v[2] \div 16>>
    ELSE IF Len(v) = 3 THEN <<v[1] * 4 + v[2] \div 16, (v[2] % 16) * 16 + v[3] \div 4>>
    ELSE <<v[1] * 4 + v[2] \div 16, (v[2] % 16) * 16 + v[3] \div 4, (v[3] % 4) * 64 + v[4]>>
         \o DecodeSextets(SubSeq(v, 5, Len(v)))

BadBase64 == [ok |-> FALSE, bytes |-> <<>>]
Decoded(bytes) == [ok |-> TRUE, bytes |-> bytes]

\* base64.b64decode(s) of a value of the request: a value that is not a
\* string raises TypeError; characters outside the alphabet are discarded;
\* the padding must complete the last group (binascii.Error otherwise).
\* Defined for text whose "=" all follow the data characters.
b64decode(value) ==
    IF value.t # "str" THEN BadBase64
    ELSE LET s == value.s
             data == SelectSeq(s, IsB64Char)
             pads == Len(SelectSeq(s, LAMBDA ch : ch = "="))
             r == Len(data) % 4
         IN  IF r = 1 \/ (r = 2 /\ pads < 2) \/ (r = 3 /\ pads < 1) THEN BadBase64
             ELSE Decoded(DecodeSextets([k \in 1..Len(data) |-> B64Index(data[k])]))

\* hashlib.sha256(data).hexdigest(): the digest stands for the bytes hashed
sha256(bytes) == [sha256_of |-> bytes]

(***************************************************************************)
(* The file store.  A file is [content, writer]: its bytes, and the        *)
(* connection that last created, truncated or wrote it (0: none).          *)
(***************************************************************************)
root == <<"/">>

\* main() creates the base directory before the servers start.
BaseDirs == {root, <<"/", "v">>, OPS_FILES_BASE_DIR}
NoFiles == [p \in {} |-> [content |-> <<>>, writer |-> 0]]

IsDir(dirs, p) == p \in dirs
IsFile(files, p) == p \in DOMAIN files

SetFile(files, p, f) == [q \in DOMAIN files \cup {p} |-> IF q = p THEN f ELSE files[q]]

\* os.makedirs(name, exist_ok=True): the directories afterwards, or the
\* OSError of mkdir when name or one of its ancestors is a file.
RECURSIVE makedirs(_, _, _)
makedirs(dirs, files, name) ==
    IF IsDir(dirs, name) THEN [ok |-> TRUE, dirs |-> dirs]
    ELSE IF IsFile(files, name) THEN [ok |-> FALSE, dirs |-> dirs]
    ELSE LET head == dirname(name)
             up == IF IsDir(dirs, head) \/ IsFile(files, head) \/ head = name
                   THEN [ok |-> TRUE, dirs |-> dirs]
                   ELSE makedirs(dirs, files, head)
         IN  IF ~up.ok \/ ~IsDir(up.dirs, head) THEN [ok |-> FALSE, dirs |-> up.dirs]
             ELSE [ok |-> TRUE, dirs |-> up.dirs \cup {name}]

\* open(p, "r+b") in the place of "wb": the content is kept
OpenKeep(files, p, i) ==
    SetFile(files, p, [content |-> IF IsFile(files, p) THEN files[p].content ELSE <<>>,
                       writer |-> i])

\* open(p, "wb") by connection i: the file is created or truncated
OpenWb(files, p, i) == SetFile(files, p, [content |-> <<>>, writer |-> i])

\* write(2) of data at offset 0 of a file opened "wb"
WriteAt0(content, data) == data \o SubSeq(content, Len(data) + 1, Len(content))

(***************************************************************************)
(* The servers.  sock: the listening socket; loop: the serve_forever       *)
(* thread; shutdown_request: the flag shutdown() sets and the loop polls.  *)
(***************************************************************************)
Services == <<"exec", "files", "forward">>

NoServer == [sock |-> "none", loop |-> "idle", shutdown_request |-> FALSE]

\* ThreadedTCPServer(addr, Handler) binds and listens; the thread runs
\* serve_forever
Serving == [sock |-> "listening", loop |-> "serving", shutdown_request |-> FALSE]

\* serve_forever accepts while the socket listens and the flag is not set
Accepting_IgnoresShutdown(s) ==
    /\ main.at # "exited"
    /\ servers[s].sock = "listening" /\ servers[s].loop = "serving"

Accepting(s) ==
    /\ main.at # "exited"
    /\ servers[s] = Serving

\* a handler thread has returned, or the process has ended under it
Ended == {"done", "killed"}

\* an exception that leaves handle() ends the accept loop
HandlerThreadEnd_Propagates(srv, raised) ==
    IF raised THEN [srv EXCEPT !.loop = "stopped"] ELSE srv

\* ThreadingMixIn runs each handler in a thread of its own: an exception
\* that leaves handle() is reported there and the thread ends; the server
\* object and its accept loop are as they were
HandlerThreadEnd(srv, raised) == srv

(***************************************************************************)
(* ExecRequestHandler                                                      *)
(***************************************************************************)
\* The parsed request object: the keys the handler reads.
ExecObject(cmd, args, caller) == [cmd |-> cmd, args |-> args, caller |-> caller]

NoObject == ExecObject(JAbsent, JAbsent, JAbsent)

\* What readline() returns: nothing (EOF), bytes that are not UTF-8, text
\* that is not JSON, a JSON value that is not an object, or an object.
Line(kind, obj) == [kind |-> kind, obj |-> obj]

b_ls == <<"b", "/", "l", "s">>

ExecCmds ==
    {JAbsent, JNum(TRUE), JStr(<<>>), JList(<<JStr(ls)>>),
     JStr(rm),
     JStr(<<"/", "l", "s">>), JStr(b_ls), JStr(<<"b", "/", "r", "m">>),
     JStr(<<"l", "s", "/">>)}

\* an argument of n characters
LongArg(n) == JStr([k \in 1..n |-> "x"])

ExecArgs ==
    {JAbsent, JNull, JList(<<>>), JList(<<JStr(<<"x">>)>>),
     JStr(<<"x">>), JList(<<JNum(TRUE)>>), JList(<<JStr(<<"x">>), JStr(<<"NUL">>)>>),
     JList(<<JStr(<<"NUL">>), JNum(TRUE)>>)}

ExecLines ==
    {Line(k, NoObject) : k \in {"empty", "bad_utf8", "bad_json", "non_object"}}
    \cup {Line("object", ExecObject(c, JAbsent, JAbsent)) : c \in ExecCmds}
    \cup {Line("object", ExecObject(JStr(ls), a, JAbsent)) : a \in ExecArgs}
    \cup {Line("object", ExecObject(JStr(echo), JList(<<>>), JStr(<<"o", "p">>)))}


\* raised: an exception has left handle(); afterFaults: the connections
\* whose handler had ended so when this one was accepted
NewExecConn ==
    [line |-> Line("unread", NoObject), pc |-> "accepted", broken |-> FALSE, sent |-> <<>>,
     spawns |-> 0, argv |-> <<>>, outcome |-> "none",
     captured |-> [out |-> <<>>, err |-> <<>>], secs |-> 0,
     rc |-> 0, decoded |-> TRUE,
     raised |-> FALSE, closed |-> FALSE, afterFaults |-> {}]

\* _send(obj), and the except/finally clauses of handle() around it:
\* json.dumps or the socket write may raise; the exception reaches
\* `except Exception`, which sends handler_error with the same _send, and an
\* exception of that one leaves handle(); finally shuts the socket down.
ExecSendAndClose(c, resp) ==
    LET first == Serializable(resp) /\ ~c.broken
        second == ~first /\ ~c.broken
    IN  [c EXCEPT !.pc = "done",
                  !.sent = IF first THEN Append(@, resp)
                           ELSE IF second THEN Append(@, ErrorMessage("handler_error", MsgException))
                           ELSE @,
                  !.raised = ~first /\ ~second,
                  !.closed = TRUE]

\* handle() without its `except Exception` clause
ExecFaultAndClose_Uncaught(c) ==
    [c EXCEPT !.pc = "done", !.raised = TRUE, !.closed = TRUE]

\* an exception raised in the try block outside _send
ExecFaultAndClose(c) ==
    [c EXCEPT !.pc = "done",
              !.sent = IF c.broken THEN @ ELSE Append(@, ErrorMessage("handler_error", MsgException)),
              !.raised = c.broken,
              !.closed = TRUE]

\* The server accepts a connection and starts its handler thread.
ExecAccept ==
    /\ Accepting("exec")
    /\ execConns' = Append(execConns,
            [NewExecConn EXCEPT !.afterFaults = {j \in DOMAIN execConns : execConns[j].raised}])
    /\ UNCHANGED <<ALLOWLIST, filesVars, fwdVars, mainVars>>

\* The peer resets the connection: every later write to it raises.
ExecPeerReset(i) ==
    /\ execConns[i].pc \notin Ended
    /\ ~execConns[i].broken
    /\ execConns' = [execConns EXCEPT ![i].broken = TRUE]
    /\ UNCHANGED <<ALLOWLIST, filesVars, fwdVars, mainVars>>

\* handle() up to the call of subprocess.run; readline() returns `line`
ExecHandle(i, line) ==
    LET c == [execConns[i] EXCEPT !.line = line]
        req == c.line.obj
        cmd == Get(req, "cmd")
        args == GetOrEmptyList(req, "args")
        v == validate_command(cmd, args)
    IN  /\ c.pc = "accepted"
        /\ UNCHANGED <<ALLOWLIST, filesVars, fwdVars, main, shutdown_event>>
        /\ CASE c.line.kind = "empty" ->
                  execConns' = [execConns EXCEPT ![i] = ExecSendAndClose(c, ErrorResponse("empty_request"))]
             [] c.line.kind = "bad_utf8" ->
                  \* UnicodeDecodeError is not a json.JSONDecodeError
                  execConns' = [execConns EXCEPT ![i] = ExecFaultAndClose(c)]
             [] c.line.kind = "bad_json" ->
                  execConns' = [execConns EXCEPT ![i] = ExecSendAndClose(c, ErrorMessage("bad_json", MsgException))]
             [] c.line.kind = "non_object" ->
                  \* req.get: AttributeError
                  execConns' = [execConns EXCEPT ![i] = ExecFaultAndClose(c)]
             [] c.line.kind = "object" /\ ~v.ok ->
                  execConns' = [execConns EXCEPT ![i] = ExecSendAndClose(c, ErrorMessage("validation", v.msg))]
             [] c.line.kind = "object" /\ v.ok /\ args.t # "list" ->
                  \* run_command(base, None): [cmd, *args] raises TypeError
                  execConns' = [execConns EXCEPT ![i] =
                      ExecSendAndClose([c EXCEPT !.outcome = "failed"], run_command_Failed(0))]
             [] c.line.kind = "object" /\ v.ok /\ args.t = "list" ->
                  \E spawned \in BOOLEAN :
                      execConns' = [execConns EXCEPT ![i] =
                          IF spawned
                          THEN [c EXCEPT !.pc = "running", !.spawns = @ + 1,
                                         !.argv = <<v.base>> \o [k \in 1..Len(args.l) |-> args.l[k].s]]
                          ELSE ExecSendAndClose([c EXCEPT !.outcome = "failed"], run_command_Failed(0))]
        /\ servers' = [servers EXCEPT !["exec"] = HandlerThreadEnd(@, execConns'[i].raised)]

\* The process ends within the timeout with exit code rc, having written
\* out and err.  With text=True subprocess.run decodes what it captured;
\* output that is not valid in the locale's encoding raises
\* UnicodeDecodeError, which run_command reports as exec_error.
ExecProcExit(i, rc, out, err, secs, decoded) ==
    LET c == execConns[i] IN
    /\ c.pc = "running"
    /\ decoded \/ out \o err # <<>>
    /\ UNCHANGED <<ALLOWLIST, filesVars, fwdVars, main, shutdown_event>>
    /\ execConns' = [execConns EXCEPT ![i] =
         ExecSendAndClose(
             [c EXCEPT !.outcome = "completed", !.secs = secs, !.rc = rc,
                       !.decoded = decoded,
                       !.captured = [out |-> out, err |-> err]],
             IF decoded
             THEN run_command_Completed(rc, out, err, secs)
             ELSE run_command_Failed(secs))]
    /\ servers' = [servers EXCEPT !["exec"] = HandlerThreadEnd(@, execConns'[i].raised)]

\* The timeout expires first: the process is killed; out and err are what it
\* had written by then.
ExecTimeout(i, out, err, secs) ==
    LET c == execConns[i] IN
    /\ c.pc = "running"
    /\ UNCHANGED <<ALLOWLIST, filesVars, fwdVars, main, shutdown_event>>
    /\ execConns' = [execConns EXCEPT ![i] =
         ExecSendAndClose(
             [c EXCEPT !.outcome = "timed_out", !.secs = secs,
                       !.captured = [out |-> out, err |-> err]],
             run_command_TimedOut(out, err, secs))]
    /\ servers' = [servers EXCEPT !["exec"] = HandlerThreadEnd(@, execConns'[i].raised)]

\* What a process does: the text it writes to stdout and to stderr: nothing,
\* as much as a response may carry, or more.
Outs == {OutText(0), OutText(MAX_OUTPUT_CHARS), OutText(MaxOut)}
Errs == {OutText(0), OutText(MaxOut)}

\* The state after main() has started the servers, under the default
\* configuration.
DefaultConfig ==
    /\ ALLOWLIST = DEFAULT_ALLOWLIST
    /\ OPS_FORWARD_ALLOWED_HOSTS = DefaultForwardHosts
    /\ OPS_FORWARD_ALLOWED_PORTS = DefaultForwardPorts
    /\ OPS_FORWARD_DEFAULT_TARGET_HOST = "127.0.0.1"
    /\ OPS_FORWARD_DEFAULT_TARGET_PORT = HttpAltPort

Started ==
    /\ main = [at |-> "wait", k |-> 0]
    /\ shutdown_event = FALSE
    /\ servers = [s \in {Services[k] : k \in 1..3} |-> Serving]
    /\ execConns = <<>>
    /\ filesConns = <<>>
    /\ fwdConns = <<>>
    /\ fsDirs = BaseDirs
    /\ fsFiles = NoFiles

InitExec ==
    /\ ALLOWLIST \in AllowlistConfigs
    /\ OPS_FORWARD_ALLOWED_HOSTS = DefaultForwardHosts
    /\ OPS_FORWARD_ALLOWED_PORTS = DefaultForwardPorts
    /\ OPS_FORWARD_DEFAULT_TARGET_HOST = "127.0.0.1"
    /\ OPS_FORWARD_DEFAULT_TARGET_PORT = HttpAltPort
    /\ Started

\* The connections of this specification follow one another; SpecSiblings
\* has the handlers that run side by side.
NextExec ==
    \/ /\ Len(execConns) < MaxExecConns
       /\ \A j \in DOMAIN execConns : execConns[j].pc \in Ended
       /\ ExecAccept
    \/ \E i \in DOMAIN execConns : ExecPeerReset(i)
    \/ \E i \in DOMAIN execConns, line \in ExecLines : ExecHandle(i, line)
    \/ \E i \in DOMAIN execConns, rc \in {0, 1}, out \in Outs, err \in Errs,
          secs \in {0, TIMEOUT_SECS}, decoded \in BOOLEAN :
          ExecProcExit(i, rc, out, err, secs, decoded)
    \/ \E i \in DOMAIN execConns, out \in Outs, err \in Errs,
          secs \in TIMEOUT_SECS..(TIMEOUT_SECS + MaxOverrun) :
          ExecTimeout(i, out, err, secs)

SpecExec == InitExec /\ [][NextExec]_vars

\* The requests for an allow-listed command with every args of ExecArgs and
\* with an argument of 4096 and of 4097 characters.
ArgLines ==
    {Line("object", ExecObject(JStr(ls), a, JAbsent)) :
        a \in ExecArgs \cup {JList(<<LongArg(MAX_ARG_LEN)>>),
                             JList(<<LongArg(MAX_ARG_LEN + 1)>>)}}

NextArgs ==
    \/ /\ Len(execConns) < MaxExecConns
       /\ \A j \in DOMAIN execConns : execConns[j].pc \in Ended
       /\ ExecAccept
    \/ \E i \in DOMAIN execConns : ExecPeerReset(i)
    \/ \E i \in DOMAIN execConns, line \in ArgLines : ExecHandle(i, line)
    \/ \E i \in DOMAIN execConns, rc \in {0, 1} :
          ExecProcExit(i, rc, OutText(1), OutText(0), 0, TRUE)
    \/ \E i \in DOMAIN execConns : ExecTimeout(i, OutText(0), OutText(0), TIMEOUT_SECS)

SpecArgs == InitExec /\ [][NextArgs]_vars

(***************************************************************************)
(* Exec handlers side by side: ThreadingMixIn starts a thread for each     *)
(* accepted connection.                                                    *)
(***************************************************************************)
MaxSiblings == 2

SiblingLines ==
    {Line("bad_utf8", NoObject), Line("object", ExecObject(JStr(ls), JAbsent, JAbsent))}

NextSiblings ==
    \/ Len(execConns) < MaxSiblings /\ ExecAccept
    \/ \E i \in DOMAIN execConns : ExecPeerReset(i)
    \/ \E i \in DOMAIN execConns, line \in SiblingLines : ExecHandle(i, line)
    \/ \E i \in DOMAIN execConns, rc \in {0, 1} :
          ExecProcExit(i, rc, OutText(1), OutText(0), 0, TRUE)
    \/ \E i \in DOMAIN execConns, out \in {OutText(0), OutText(1)} :
          ExecTimeout(i, out, OutText(0), TIMEOUT_SECS)

\* Each handler thread is scheduled; its client sends a line or closes; the
\* process it runs ends or the timeout expires.
SpecSiblings ==
    /\ InitExec /\ [][NextSiblings]_vars
    /\ \A i \in 1..MaxSiblings :
        /\ WF_vars(i \in DOMAIN execConns /\ \E line \in SiblingLines : ExecHandle(i, line))
        /\ WF_vars(i \in DOMAIN execConns /\ \E out \in {OutText(0), OutText(1)} :
                      ExecTimeout(i, out, OutText(0), TIMEOUT_SECS))

(***************************************************************************)
(* FilesRequestHandler                                                     *)
(***************************************************************************)
FilesObject(op, path, data, caller) == [op |-> op, path |-> path, data |-> data, caller |-> caller]

NoFilesObject == FilesObject(JAbsent, JAbsent, JAbsent, JAbsent)

NoFilesResult ==
    [keys |-> {}, ok |-> FALSE, error |-> "", message |-> "", path |-> <<>>,
     size |-> 0, data |-> <<>>, sha256 |-> sha256(<<>>)]

FilesError(code) == [NoFilesResult EXCEPT !.keys = {"ok", "error"}, !.error = code]

FilesErrorMessage(code, msg) ==
    [NoFilesResult EXCEPT !.keys = {"ok", "error", "message"}, !.error = code, !.message = msg]

Uploaded(final_path, data) ==
    [NoFilesResult EXCEPT !.keys = {"ok", "path", "size", "sha256"}, !.ok = TRUE,
                          !.path = final_path, !.size = Len(data), !.sha256 = sha256(data)]

Downloaded(final_path, data) ==
    [NoFilesResult EXCEPT !.keys = {"ok", "path", "size", "data", "sha256"}, !.ok = TRUE,
                          !.path = final_path, !.size = Len(data),
                          !.data = b64encode(data), !.sha256 = sha256(data)]

MsgMissingPathOrData == "missing path or data"
MsgMissingPath == "missing path"
MsgNotFound == "file not found"
MsgUnsupportedOp == "op={op}"

upload == <<"u", "p", "l", "o", "a", "d">>
download == <<"d", "o", "w", "n", "l", "o", "a", "d">>
delete == <<"d", "e", "l", "e", "t", "e">>

\* relative paths of the requests
p_a == <<"a">>
p_a_b == <<"a", "/", "b">>
p_up_o_a == <<".", ".", "/", "o", "/", "a">>
p_up_x == <<".", ".", "/", "x">>
p_up_oa == <<".", ".", "/", "o", "a">>
p_dot == <<".">>

\* payloads, and text that is not base64
Payloads == {<<98>>, <<97, 98>>}
notB64 == <<"A">>

UploadLine(path, data) == Line("object", FilesObject(JStr(upload), path, data, JAbsent))
DownloadLine(path) == Line("object", FilesObject(JStr(download), path, JAbsent, JAbsent))

FilesLines ==
    {Line(k, NoFilesObject) : k \in {"empty", "bad_json", "non_object"}}
    \cup {Line("object", FilesObject(JStr(delete), JStr(p_a), JAbsent, JAbsent))}
    \cup {UploadLine(JStr(p_a), JStr(b64encode(b))) : b \in Payloads}
    \cup {UploadLine(JStr(p_a_b), JStr(b64encode(<<98>>)))}
    \cup {UploadLine(p, JStr(b64encode(<<98>>))) :
            p \in {JStr(p_up_x), JStr(p_up_oa), JStr(p_dot), JStr(<<>>), JNum(TRUE)}}
    \cup {UploadLine(JStr(p_a), d) : d \in {JStr(<<>>), JStr(notB64)}}
    \cup {UploadLine(JStr(p_a_b), JStr(notB64))}
    \cup {UploadLine(JStr(p_up_x), JAbsent)}
    \cup {DownloadLine(p) :
            p \in {JStr(p_a), JStr(p_a_b), JStr(p_up_o_a), JStr(p_up_x), JAbsent}}

\* after: the connections that had completed when this one was accepted;
\* effects: the changes this handler made to the file store;
\* fault: the storage operation the environment made fail (permissions,
\* full disk, I/O error); conflict: a storage operation failed because of
\* what the path names (a directory opened as a file, a file in the place
\* of a parent directory); readWriter: the writer of the file a download read.

NewFilesConn(after) ==
    [line |-> Line("unread", NoFilesObject), pc |-> "accepted", broken |-> FALSE, sent |-> <<>>,
     final_path |-> <<>>, data |-> <<>>, effects |-> {}, after |-> after,
     fault |-> "none", conflict |-> FALSE, readWriter |-> 0, closed |-> FALSE]

\* _send(obj), which swallows the exceptions of the socket write; handle()
\* returns after it and the server closes the connection.
FilesSendAndClose(c, resp) ==
    [c EXCEPT !.pc = "done",
              !.sent = IF c.broken THEN @ ELSE Append(@, resp),
              !.closed = TRUE]

FilesHandlerError == FilesErrorMessage("handler_error", MsgException)

\* The server accepts a connection and starts its handler thread.
FilesAccept ==
    /\ Accepting("files")
    /\ filesConns' = Append(filesConns,
           NewFilesConn({j \in DOMAIN filesConns : filesConns[j].pc = "done"}))
    /\ UNCHANGED <<execVars, fwdVars, mainVars, fsDirs, fsFiles>>

FilesPeerReset(i) ==
    /\ filesConns[i].pc \notin Ended
    /\ ~filesConns[i].broken
    /\ filesConns' = [filesConns EXCEPT ![i].broken = TRUE]
    /\ UNCHANGED <<execVars, fwdVars, mainVars, fsDirs, fsFiles>>

FilesRespond(i, c, resp) ==
    /\ filesConns' = [filesConns EXCEPT ![i] = FilesSendAndClose(c, resp)]
    /\ UNCHANGED <<fsDirs, fsFiles>>

\* op == "upload", up to the call of open()
HandleUpload(i, line) ==
    LET c == [filesConns[i] EXCEPT !.line = line]
        path == Get(c.line.obj, "path")
        data_b64 == Get(c.line.obj, "data")
        joined == _safe_join(OPS_FILES_BASE_DIR, path.s)
        made == makedirs(fsDirs, fsFiles, dirname(joined.target))
        decoded == b64decode(data_b64)
        mk == [c EXCEPT !.effects = IF made.dirs # fsDirs THEN @ \cup {"mkdir"} ELSE @,
                        !.conflict = ~made.ok]
    IN  IF ~Truthy(path) \/ ~Truthy(data_b64)
        THEN FilesRespond(i, c, FilesErrorMessage("validation", MsgMissingPathOrData))
        ELSE IF path.t # "str"
        THEN \* os.path.join raises TypeError
             FilesRespond(i, c, FilesHandlerError)
        ELSE IF ~joined.ok
        THEN FilesRespond(i, c, FilesError("path_forbidden"))
        ELSE \E fault \in BOOLEAN :
             IF fault
             THEN \* os.makedirs raises (permissions, full disk)
                  FilesRespond(i, [c EXCEPT !.fault = "makedirs"], FilesHandlerError)
             ELSE /\ fsDirs' = made.dirs
                  /\ UNCHANGED fsFiles
                  /\ filesConns' = [filesConns EXCEPT ![i] =
                        IF ~made.ok THEN FilesSendAndClose(mk, FilesHandlerError)
                        ELSE IF ~decoded.ok THEN FilesSendAndClose(mk, FilesError("bad_base64"))
                        ELSE [mk EXCEPT !.pc = "opening", !.final_path = joined.target,
                                        !.data = decoded.bytes]]

\* op == "download"
HandleDownload(i, line) ==
    LET c == [filesConns[i] EXCEPT !.line = line]
        path == Get(c.line.obj, "path")
        joined == _safe_join(OPS_FILES_BASE_DIR, path.s)
        final_path == joined.target
    IN  IF ~Truthy(path)
        THEN FilesRespond(i, c, FilesErrorMessage("validation", MsgMissingPath))
        ELSE IF path.t # "str"
        THEN FilesRespond(i, c, FilesHandlerError)
        ELSE IF ~joined.ok
        THEN FilesRespond(i, c, FilesError("path_forbidden"))
        ELSE IF ~IsDir(fsDirs, final_path) /\ ~IsFile(fsFiles, final_path)
        THEN FilesRespond(i, c, FilesErrorMessage("not_found", MsgNotFound))
        ELSE \E fault \in BOOLEAN :
             IF fault \/ IsDir(fsDirs, final_path)
             THEN \* open() or read() raises
                  FilesRespond(i, [c EXCEPT !.fault = IF fault THEN "read" ELSE @,
                                            !.conflict = ~fault],
                               FilesErrorMessage("io_error", MsgException))
             ELSE FilesRespond(i,
                      [c EXCEPT !.final_path = final_path,
                                !.data = fsFiles[final_path].content,
                                !.readWriter = fsFiles[final_path].writer],
                      Downloaded(final_path, fsFiles[final_path].content))

\* handle() up to the call of open() of an upload, or to its end;
\* readline() returns `line`
FilesHandle(i, line) ==
    LET c == [filesConns[i] EXCEPT !.line = line]
        op == Get(c.line.obj, "op")
    IN  /\ c.pc = "accepted"
        /\ UNCHANGED <<execVars, fwdVars, mainVars>>
        /\ CASE c.line.kind = "empty" -> FilesRespond(i, c, FilesError("empty_request"))
             [] c.line.kind \in {"bad_utf8", "bad_json"} ->
                  FilesRespond(i, c, FilesErrorMessage("bad_json", MsgException))
             [] c.line.kind = "non_object" ->
                  \* req.get: AttributeError
                  FilesRespond(i, c, FilesHandlerError)
             [] c.line.kind = "object" /\ op = JStr(upload) -> HandleUpload(i, line)
             [] c.line.kind = "object" /\ op = JStr(download) -> HandleDownload(i, line)
             [] c.line.kind = "object" /\ op # JStr(upload) /\ op # JStr(download) ->
                  FilesRespond(i, c, FilesErrorMessage("unsupported_op", MsgUnsupportedOp))

\* open(final_path, "wb"): creates the file or truncates it
FilesOpen(i) ==
    LET c == filesConns[i] IN
    /\ c.pc = "opening"
    /\ UNCHANGED <<execVars, fwdVars, mainVars, fsDirs>>
    /\ \E fault \in BOOLEAN :
         IF fault \/ IsDir(fsDirs, c.final_path) \/ ~IsDir(fsDirs, dirname(c.final_path))
         THEN FilesRespond(i, [c EXCEPT !.fault = IF fault THEN "open" ELSE @,
                                        !.conflict = ~fault],
                           FilesErrorMessage("io_error", MsgException))
         ELSE /\ fsFiles' = OpenWb(fsFiles, c.final_path, i)
              /\ filesConns' = [filesConns EXCEPT ![i] =
                    [c EXCEPT !.pc = "writing",
                              !.effects = @ \cup {IF IsFile(fsFiles, c.final_path)
                                                  THEN "truncate" ELSE "create"}]]

\* f.write(data), flush, fsync, and the response; a write that fails has
\* written some of the data
FilesWrite(i) ==
    LET c == filesConns[i]
        f == fsFiles[c.final_path]
    IN  /\ c.pc = "writing"
        /\ UNCHANGED <<execVars, fwdVars, mainVars, fsDirs>>
        /\ \E n \in 0..Len(c.data) :
             /\ fsFiles' = SetFile(fsFiles, c.final_path,
                               [content |-> WriteAt0(f.content, Slice(c.data, n)), writer |-> i])
             /\ filesConns' = [filesConns EXCEPT ![i] =
                   FilesSendAndClose([c EXCEPT !.effects = @ \cup {"write"},
                                               !.fault = IF n < Len(c.data) THEN "write" ELSE @],
                       IF n < Len(c.data)
                       THEN FilesErrorMessage("io_error", MsgException)
                       ELSE Uploaded(c.final_path, c.data))]

InitFiles == DefaultConfig /\ Started

\* The clients of this specification send their requests one after the
\* other; SpecUploads has the uploads that run side by side.
NextFiles ==
    \/ /\ Len(filesConns) < MaxFilesConns
       /\ \A j \in DOMAIN filesConns : filesConns[j].pc = "done"
       /\ FilesAccept
    \/ \E i \in DOMAIN filesConns : FilesPeerReset(i)
    \/ \E i \in DOMAIN filesConns, line \in FilesLines : FilesHandle(i, line)
    \/ \E i \in DOMAIN filesConns : FilesOpen(i)
    \/ \E i \in DOMAIN filesConns : FilesWrite(i)

SpecFiles == InitFiles /\ [][NextFiles]_vars

(***************************************************************************)
(* Uploads side by side: ThreadingMixIn starts a thread for each accepted  *)
(* connection, and nothing serializes the handlers' use of the file store. *)
(***************************************************************************)
MaxUploads == 2         \* connections of concurrent uploads

\* uploads of each payload to the one path "a"
UploadLines == {UploadLine(JStr(p_a), JStr(b64encode(b))) : b \in Payloads}

NextUploads ==
    \/ Len(filesConns) < MaxUploads /\ FilesAccept
    \/ \E i \in DOMAIN filesConns, line \in UploadLines : FilesHandle(i, line)
    \/ \E i \in DOMAIN filesConns : FilesOpen(i)
    \/ \E i \in DOMAIN filesConns : FilesWrite(i)

SpecUploads == InitFiles /\ [][NextUploads]_vars

(***************************************************************************)
(* ForwardRequestHandler                                                   *)
(***************************************************************************)
RECV_BUFFER == 4096

\* The bytes the client and the target send, in order.  A client sends
\* one of two payloads; the second begins with a JSON header line that
\* names a target (one element of the sequence stands for the line).
ClientBytes ==
    << <<"p", "i", "n", "g">>,
       <<"{\"target\":\"10.0.0.9:22\"}", "p", "i", "n">> >>
TargetBytes == <<"P", "O", "N", "G">>

FwdError(code, msg) == [ok |-> FALSE, error |-> code, message |-> msg]

MsgHostNotAllowed == "host not allowed"
MsgPortNotAllowed == "port not allowed"

\* request: the accepted socket; local: local_sock.  reqIn/locIn: bytes
\* received and not yet read; reqEof/locEof: the peer has closed its side;
\* reqReset/locReset: the peer has reset the connection; toClient/toTarget:
\* the bytes written to each socket; reqShutWr/locShutWr: shutdown(SHUT_WR)
\* was called on it.  clientSent/targetSent count the bytes each peer sent,
\* payload is the one of ClientBytes the client sends.  fromClient and
\* fromTarget are the bytes the pumps have read; z2lEnd/l2zEnd tell why a
\* pump ended; late counts the bytes a pump delivered after the other pump
\* had ended.
NewFwdConn ==
    [pc |-> "accepted", sent |-> <<>>, dials |-> 0, target |-> <<>>,
     local |-> "none", z2l |-> "idle", l2z |-> "idle",
     payload |-> 1, fromClient |-> <<>>, fromTarget |-> <<>>,
     z2lEnd |-> "", l2zEnd |-> "", late |-> 0,
     reqIn |-> <<>>, reqEof |-> FALSE, reqReset |-> FALSE, reqShutWr |-> FALSE,
     locIn |-> <<>>, locEof |-> FALSE, locReset |-> FALSE, locShutWr |-> FALSE,
     toClient |-> <<>>, toTarget |-> <<>>, clientSent |-> 0, targetSent |-> 0,
     closed |-> FALSE]

ForwardCheck_HostOnly(host, port) ==
    IF ~InList(host, OPS_FORWARD_ALLOWED_HOSTS) THEN MsgHostNotAllowed ELSE ""

\* the two allow-list checks of handle(): the message of the one that
\* rejects the target, "" when both pass
ForwardCheck(host, port) ==
    IF ~InList(host, OPS_FORWARD_ALLOWED_HOSTS) THEN MsgHostNotAllowed
    ELSE IF ~InList(port, OPS_FORWARD_ALLOWED_PORTS) THEN MsgPortNotAllowed
    ELSE ""

\* _send_error, which swallows the exceptions of the socket write
FwdSendError(c, code, msg) ==
    [c EXCEPT !.sent = IF c.reqReset THEN @ ELSE Append(@, FwdError(code, msg))]

\* handle() returns and the server closes the accepted socket
FwdReturn(c) == [c EXCEPT !.pc = "done", !.closed = TRUE]

\* The server accepts a connection and starts its handler thread.  Forward
\* sessions share no state; the sessions of the model follow one another.
FwdAccept ==
    /\ Accepting("forward")
    /\ Len(fwdConns) < MaxFwdConns
    /\ \A j \in DOMAIN fwdConns : fwdConns[j].pc = "done"
    /\ fwdConns' = Append(fwdConns, NewFwdConn)
    /\ UNCHANGED <<execVars, filesVars, fwdConfig, mainVars>>

\* a handle() that checks the default target and then dials the target
\* that the first line of the client names
FwdHandle_TargetFromHeader(i) ==
    LET c == fwdConns[i]
        named == c.reqIn # <<>> /\ c.reqIn[1] = ClientBytes[2][1]
        host == OPS_FORWARD_DEFAULT_TARGET_HOST
        port == OPS_FORWARD_DEFAULT_TARGET_PORT
    IN  /\ c.pc = "accepted"
        /\ UNCHANGED <<execVars, filesVars, fwdConfig, mainVars>>
        /\ IF ForwardCheck(host, port) # ""
           THEN fwdConns' = [fwdConns EXCEPT ![i] =
                    FwdReturn(FwdSendError(c, "forbidden", ForwardCheck(host, port)))]
           ELSE fwdConns' = [fwdConns EXCEPT ![i] =
                    [c EXCEPT !.dials = @ + 1,
                              !.target = IF named THEN <<"10.0.0.9", 22>> ELSE <<host, port>>,
                              !.local = "open", !.pc = "relaying",
                              !.z2l = "running", !.l2z = "running"]]

\* handle() up to the start of the two relay threads
FwdHandle(i) ==
    LET c == fwdConns[i]
        host == OPS_FORWARD_DEFAULT_TARGET_HOST
        port == OPS_FORWARD_DEFAULT_TARGET_PORT
    IN  /\ c.pc = "accepted"
        /\ UNCHANGED <<execVars, filesVars, fwdConfig, mainVars>>
        /\ IF ForwardCheck(host, port) # ""
           THEN fwdConns' = [fwdConns EXCEPT ![i] =
                    FwdReturn(FwdSendError(c, "forbidden", ForwardCheck(host, port)))]
           ELSE \E connected \in BOOLEAN :
                fwdConns' = [fwdConns EXCEPT ![i] =
                    LET d == [c EXCEPT !.dials = @ + 1, !.target = <<host, port>>,
                                       !.local = "open"]
                    IN  IF connected
                        THEN [d EXCEPT !.pc = "relaying", !.z2l = "running", !.l2z = "running"]
                        ELSE FwdReturn(FwdSendError(d, "connect_failed", MsgException))]

\* The client writes the next byte of payload k to the connection.
FwdClientSend(i, k) ==
    LET c == fwdConns[i] IN
    /\ c.pc \notin Ended /\ ~c.reqEof /\ ~c.reqReset
    /\ c.clientSent = 0 \/ k = c.payload
    /\ fwdConns' = [fwdConns EXCEPT ![i].reqIn = Append(@, ClientBytes[k][c.clientSent + 1]),
                                    ![i].clientSent = @ + 1,
                                    ![i].payload = k]
    /\ UNCHANGED <<execVars, filesVars, fwdConfig, mainVars>>

\* The client closes its sending side (EOF), or resets the connection.
FwdClientEnd(i) ==
    LET c == fwdConns[i] IN
    /\ c.pc \notin Ended /\ ~c.reqEof /\ ~c.reqReset
    /\ \E reset \in BOOLEAN :
         fwdConns' = [fwdConns EXCEPT ![i] =
             IF reset THEN [c EXCEPT !.reqReset = TRUE, !.reqIn = <<>>]
             ELSE [c EXCEPT !.reqEof = TRUE]]
    /\ UNCHANGED <<execVars, filesVars, fwdConfig, mainVars>>

\* The target writes its next byte to the connection.
FwdTargetSend(i) ==
    LET c == fwdConns[i] IN
    /\ c.pc = "relaying" /\ ~c.locEof /\ ~c.locReset
    /\ fwdConns' = [fwdConns EXCEPT ![i].locIn = Append(@, TargetBytes[c.targetSent + 1]),
                                    ![i].targetSent = @ + 1]
    /\ UNCHANGED <<execVars, filesVars, fwdConfig, mainVars>>

\* The target closes its sending side (EOF), or resets the connection.
FwdTargetEnd(i) ==
    LET c == fwdConns[i] IN
    /\ c.pc = "relaying" /\ ~c.locEof /\ ~c.locReset
    /\ \E reset \in BOOLEAN :
         fwdConns' = [fwdConns EXCEPT ![i] =
             IF reset THEN [c EXCEPT !.locReset = TRUE, !.locIn = <<>>]
             ELSE [c EXCEPT !.locEof = TRUE]]
    /\ UNCHANGED <<execVars, filesVars, fwdConfig, mainVars>>

\* relay(src, dst), one turn of its loop: recv, and sendall or the end of
\* the loop with its finally clause, dst.shutdown(SHUT_WR).  recv raises on
\* a connection the peer has reset, and on local_sock (settimeout(5)) when
\* nothing arrives in time; sendall raises when the peer has reset the
\* connection or no longer takes the bytes (wrote = FALSE).
PumpEnd_FullClose(c, dir, why) ==
    IF dir = "z2l"
    THEN [c EXCEPT !.z2l = "done", !.z2lEnd = why, !.local = "closed"]
    ELSE [c EXCEPT !.l2z = "done", !.l2zEnd = why, !.closed = TRUE]

PumpEnd(c, dir, why) ==
    IF dir = "z2l"
    THEN [c EXCEPT !.z2l = "done", !.z2lEnd = why, !.locShutWr = TRUE]
    ELSE [c EXCEPT !.l2z = "done", !.l2zEnd = why, !.reqShutWr = TRUE]

\* a relay that writes what it reads in front of what it wrote before
FwdPumpZ2L_Reorders(i, wrote) ==
    LET c == fwdConns[i]
        data == Slice(c.reqIn, RECV_BUFFER)
        read == [c EXCEPT !.reqIn = SubSeq(@, Len(data) + 1, Len(@)),
                          !.fromClient = @ \o data]
    IN  /\ c.z2l = "running"
        /\ c.reqIn # <<>> \/ c.reqEof \/ c.reqReset
        /\ UNCHANGED <<execVars, filesVars, fwdConfig, mainVars>>
        /\ fwdConns' = [fwdConns EXCEPT ![i] =
             IF c.reqReset THEN PumpEnd(c, "z2l", "read_error")
             ELSE IF c.reqIn = <<>> THEN PumpEnd(c, "z2l", "eof")
             ELSE IF c.locReset \/ ~wrote THEN PumpEnd(read, "z2l", "write_error")
             ELSE [read EXCEPT !.toTarget = data \o @,
                               !.late = IF c.l2z = "done" THEN @ + Len(data) ELSE @]]

\* relay(self.request, local_sock)
FwdPumpZ2L(i, wrote) ==
    LET c == fwdConns[i]
        data == Slice(c.reqIn, RECV_BUFFER)
        read == [c EXCEPT !.reqIn = SubSeq(@, Len(data) + 1, Len(@)),
                          !.fromClient = @ \o data]
    IN  /\ c.z2l = "running"
        /\ c.reqIn # <<>> \/ c.reqEof \/ c.reqReset
        /\ UNCHANGED <<execVars, filesVars, fwdConfig, mainVars>>
        /\ fwdConns' = [fwdConns EXCEPT ![i] =
             IF c.reqReset THEN PumpEnd(c, "z2l", "read_error")
             ELSE IF c.reqIn = <<>> THEN PumpEnd(c, "z2l", "eof")
             ELSE IF c.locReset \/ ~wrote THEN PumpEnd(read, "z2l", "write_error")
             ELSE [read EXCEPT !.toTarget = @ \o data,
                               !.late = IF c.l2z = "done" THEN @ + Len(data) ELSE @]]

\* a relay whose other direction is given up when this one has failed
FwdPumpL2Z_AbortedByZ2L(i, wrote) ==
    LET c == fwdConns[i]
        data == Slice(c.locIn, RECV_BUFFER)
        read == [c EXCEPT !.locIn = SubSeq(@, Len(data) + 1, Len(@)),
                          !.fromTarget = @ \o data]
    IN  /\ c.l2z = "running"
        /\ UNCHANGED <<execVars, filesVars, fwdConfig, mainVars>>
        /\ fwdConns' = [fwdConns EXCEPT ![i] =
             IF c.z2lEnd \in {"read_error", "write_error"} THEN PumpEnd(c, "l2z", "aborted")
             ELSE IF c.locReset THEN PumpEnd(c, "l2z", "read_error")
             ELSE IF c.locIn = <<>> /\ c.locEof THEN PumpEnd(c, "l2z", "eof")
             ELSE IF c.locIn = <<>> THEN PumpEnd(c, "l2z", "timeout")
             ELSE IF c.reqReset \/ ~wrote THEN PumpEnd(read, "l2z", "write_error")
             ELSE [read EXCEPT !.toClient = @ \o data,
                               !.late = IF c.z2l = "done" THEN @ + Len(data) ELSE @]]

\* relay(local_sock, self.request)
FwdPumpL2Z(i, wrote) ==
    LET c == fwdConns[i]
        data == Slice(c.locIn, RECV_BUFFER)
        read == [c EXCEPT !.locIn = SubSeq(@, Len(data) + 1, Len(@)),
                          !.fromTarget = @ \o data]
    IN  /\ c.l2z = "running"
        /\ UNCHANGED <<execVars, filesVars, fwdConfig, mainVars>>
        /\ fwdConns' = [fwdConns EXCEPT ![i] =
             IF c.locReset THEN PumpEnd(c, "l2z", "read_error")
             ELSE IF c.locIn = <<>> /\ c.locEof THEN PumpEnd(c, "l2z", "eof")
             ELSE IF c.locIn = <<>> THEN PumpEnd(c, "l2z", "timeout")
             ELSE IF c.reqReset \/ ~wrote THEN PumpEnd(read, "l2z", "write_error")
             ELSE [read EXCEPT !.toClient = @ \o data,
                               !.late = IF c.z2l = "done" THEN @ + Len(data) ELSE @]]

\* a handle() that waits for the first relay thread only
FwdJoin_FirstOnly(i) ==
    LET c == fwdConns[i] IN
    /\ c.pc = "relaying" /\ c.z2l = "done"
    /\ fwdConns' = [fwdConns EXCEPT ![i] = FwdReturn([c EXCEPT !.local = "closed"])]
    /\ UNCHANGED <<execVars, filesVars, fwdConfig, mainVars>>

\* a handle() that strikes the ports off the allow-list when its session
\* has ended
FwdJoin_ClearsAllowedPorts(i) ==
    LET c == fwdConns[i] IN
    /\ c.pc = "relaying" /\ c.z2l = "done" /\ c.l2z = "done"
    /\ fwdConns' = [fwdConns EXCEPT ![i] = FwdReturn([c EXCEPT !.local = "closed"])]
    /\ OPS_FORWARD_ALLOWED_PORTS' = <<>>
    /\ UNCHANGED <<execVars, filesVars, mainVars, OPS_FORWARD_ALLOWED_HOSTS,
                   OPS_FORWARD_DEFAULT_TARGET_HOST, OPS_FORWARD_DEFAULT_TARGET_PORT>>

\* t1.join(); t2.join(); local_sock.close()
FwdJoin(i) ==
    LET c == fwdConns[i] IN
    /\ c.pc = "relaying" /\ c.z2l = "done" /\ c.l2z = "done"
    /\ fwdConns' = [fwdConns EXCEPT ![i] = FwdReturn([c EXCEPT !.local = "closed"])]
    /\ UNCHANGED <<execVars, filesVars, fwdConfig, mainVars>>

\* The forward configurations of the model: hosts and ports inside and
\* outside the default allow-lists.
InitForward ==
    /\ ALLOWLIST = DEFAULT_ALLOWLIST
    /\ OPS_FORWARD_ALLOWED_HOSTS = DefaultForwardHosts
    /\ OPS_FORWARD_ALLOWED_PORTS = DefaultForwardPorts
    /\ OPS_FORWARD_DEFAULT_TARGET_HOST \in {"127.0.0.1", "10.0.0.9", "LOCALHOST"}
    /\ OPS_FORWARD_DEFAULT_TARGET_PORT \in {HttpAltPort, OtherPort}
    /\ Started

\* The sessions of the agent: every configuration, every payload and every
\* end of the client, with a target that answers nothing.
NextForward ==
    \/ FwdAccept
    \/ \E i \in DOMAIN fwdConns : FwdHandle(i)
    \/ \E i \in DOMAIN fwdConns, k \in DOMAIN ClientBytes :
          fwdConns[i].clientSent < MaxFwdBytes /\ FwdClientSend(i, k)
    \/ \E i \in DOMAIN fwdConns : FwdClientEnd(i)
    \/ \E i \in DOMAIN fwdConns : FwdPumpZ2L(i, TRUE)
    \/ \E i \in DOMAIN fwdConns : FwdPumpL2Z(i, TRUE)
    \/ \E i \in DOMAIN fwdConns : FwdJoin(i)

SpecForward == InitForward /\ [][NextForward]_vars

\* One session from its successful dial on: the default configuration, the
\* accepted connection and local_sock open, both relay threads started.
InitRelay ==
    /\ ALLOWLIST = DEFAULT_ALLOWLIST
    /\ OPS_FORWARD_ALLOWED_HOSTS = DefaultForwardHosts
    /\ OPS_FORWARD_ALLOWED_PORTS = DefaultForwardPorts
    /\ OPS_FORWARD_DEFAULT_TARGET_HOST = "127.0.0.1"
    /\ OPS_FORWARD_DEFAULT_TARGET_PORT = HttpAltPort
    /\ main = [at |-> "wait", k |-> 0]
    /\ shutdown_event = FALSE
    /\ servers = [s \in {Services[k] : k \in 1..3} |-> Serving]
    /\ execConns = <<>> /\ filesConns = <<>>
    /\ fsDirs = BaseDirs /\ fsFiles = NoFiles
    /\ fwdConns = <<[NewFwdConn EXCEPT !.dials = 1, !.target = <<"127.0.0.1", HttpAltPort>>,
                                       !.local = "open", !.pc = "relaying",
                                       !.z2l = "running", !.l2z = "running"]>>

NextRelay ==
    \/ \E i \in DOMAIN fwdConns, k \in DOMAIN ClientBytes :
          fwdConns[i].clientSent < MaxFwdBytes /\ FwdClientSend(i, k)
    \/ \E i \in DOMAIN fwdConns : FwdClientEnd(i)
    \/ \E i \in DOMAIN fwdConns : fwdConns[i].targetSent < MaxFwdBytes /\ FwdTargetSend(i)
    \/ \E i \in DOMAIN fwdConns : FwdTargetEnd(i)
    \/ \E i \in DOMAIN fwdConns, wrote \in BOOLEAN : FwdPumpZ2L(i, wrote)
    \/ \E i \in DOMAIN fwdConns, wrote \in BOOLEAN : FwdPumpL2Z(i, wrote)
    \/ \E i \in DOMAIN fwdConns : FwdJoin(i)

\* The relay threads and the handler thread are threads of the operating
\* system: each of them runs when it can.  Nothing makes a peer send or
\* close.
SpecRelay ==
    /\ InitRelay /\ [][NextRelay]_vars
    /\ WF_vars(\E i \in DOMAIN fwdConns, wrote \in BOOLEAN : FwdPumpZ2L(i, wrote))
    /\ WF_vars(\E i \in DOMAIN fwdConns, wrote \in BOOLEAN : FwdPumpL2Z(i, wrote))
    /\ WF_vars(\E i \in DOMAIN fwdConns : FwdJoin(i))

(***************************************************************************)
(* The two line-delimited JSON services together.                          *)
(***************************************************************************)
NextJson ==
    \/ /\ Len(execConns) + Len(filesConns) < MaxJsonConns
       /\ \A j \in DOMAIN execConns : execConns[j].pc \in Ended
       /\ ExecAccept
    \/ /\ Len(execConns) + Len(filesConns) < MaxJsonConns
       /\ Len(filesConns) < MaxFilesConns
       /\ \A j \in DOMAIN filesConns : filesConns[j].pc = "done"
       /\ FilesAccept
    \/ \E i \in DOMAIN execConns : ExecPeerReset(i)
    \/ \E i \in DOMAIN execConns, line \in ExecLines : ExecHandle(i, line)
    \/ \E i \in DOMAIN execConns, rc \in {0, 1}, out \in Outs, err \in Errs,
          secs \in {0, TIMEOUT_SECS}, decoded \in BOOLEAN :
          ExecProcExit(i, rc, out, err, secs, decoded)
    \/ \E i \in DOMAIN execConns, out \in Outs, err \in Errs,
          secs \in TIMEOUT_SECS..(TIMEOUT_SECS + MaxOverrun) :
          ExecTimeout(i, out, err, secs)
    \/ \E i \in DOMAIN filesConns : FilesPeerReset(i)
    \/ \E i \in DOMAIN filesConns, line \in FilesLines : FilesHandle(i, line)
    \/ \E i \in DOMAIN filesConns : FilesOpen(i)
    \/ \E i \in DOMAIN filesConns : FilesWrite(i)

SpecJson == InitFiles /\ [][NextJson]_vars

(***************************************************************************)
(* main(): starting the servers, waiting for the shutdown event, shutting  *)
(* the servers down.                                                       *)
(***************************************************************************)
\* signal_handler(signum, frame), on SIGINT or SIGTERM
signal_handler ==
    /\ main.at # "exited" /\ ~shutdown_event
    /\ shutdown_event' = TRUE
    /\ UNCHANGED <<execVars, filesVars, fwdVars, main, servers>>

\* ThreadedTCPServer(...) and the start of its serve_forever thread; an
\* exception (the address cannot be bound) is fatal: sys.exit(1)
MainStartServer ==
    /\ main.at = "start"
    /\ UNCHANGED <<execVars, filesVars, fwdVars, shutdown_event>>
    /\ \E ok \in BOOLEAN :
         IF ok
         THEN /\ servers' = [servers EXCEPT ![Services[main.k]] = Serving]
              /\ main' = IF main.k < 3 THEN [main EXCEPT !.k = @ + 1]
                         ELSE [at |-> "wait", k |-> 0]
         ELSE /\ main' = [at |-> "fatal", k |-> 1]
              /\ UNCHANGED servers

\* while not shutdown_event.is_set(): time.sleep(1)
MainWait ==
    /\ main.at = "wait" /\ shutdown_event
    /\ main' = [at |-> "shutdown", k |-> 1]
    /\ UNCHANGED <<execVars, filesVars, fwdVars, shutdown_event, servers>>

\* server.shutdown(): sets the flag the accept loop polls, then waits
MainShutdown ==
    /\ main.at = "shutdown"
    /\ servers' = [servers EXCEPT ![Services[main.k]].shutdown_request = TRUE]
    /\ main' = [main EXCEPT !.at = "join"]
    /\ UNCHANGED <<execVars, filesVars, fwdVars, shutdown_event>>

\* serve_forever sees the flag and returns
ServeForeverExit(s) ==
    /\ main.at # "exited"
    /\ servers[s].loop = "serving" /\ servers[s].shutdown_request
    /\ servers' = [servers EXCEPT ![s].loop = "stopped"]
    /\ UNCHANGED <<execVars, filesVars, fwdVars, shutdown_event, main>>

\* server.shutdown() returns once the accept loop has stopped
MainShutdownReturn ==
    /\ main.at = "join" /\ servers[Services[main.k]].loop = "stopped"
    /\ main' = IF main.k < 3 THEN [at |-> "shutdown", k |-> main.k + 1]
               ELSE [at |-> "close", k |-> 1]
    /\ UNCHANGED <<execVars, filesVars, fwdVars, shutdown_event, servers>>

\* the server_close() of a server without daemon_threads: it joins the
\* handler threads of its connections before it returns
MainServerClose_JoinsHandlers ==
    /\ main.at = "close"
    /\ \A i \in DOMAIN execConns : execConns[i].pc \in Ended
    /\ \A i \in DOMAIN filesConns : filesConns[i].pc \in Ended
    /\ \A i \in DOMAIN fwdConns : fwdConns[i].pc \in Ended
    /\ servers' = [servers EXCEPT ![Services[main.k]].sock = "closed"]
    /\ main' = IF main.k < 3 THEN [main EXCEPT !.k = @ + 1]
               ELSE [at |-> "return", k |-> 0]
    /\ UNCHANGED <<execVars, filesVars, fwdVars, shutdown_event>>

\* server.server_close(): closes the listening socket; with daemon_threads
\* the handler threads are not joined
MainServerClose ==
    /\ main.at = "close"
    /\ servers' = [servers EXCEPT ![Services[main.k]].sock = "closed"]
    /\ main' = IF main.k < 3 THEN [main EXCEPT !.k = @ + 1]
               ELSE [at |-> "return", k |-> 0]
    /\ UNCHANGED <<execVars, filesVars, fwdVars, shutdown_event>>

\* The process ends.  Every thread but the main one is a daemon thread:
\* the handlers and pumps that are still running end with the process.
Killed(conns) ==
    [i \in DOMAIN conns |->
        IF conns[i].pc = "done" THEN conns[i] ELSE [conns[i] EXCEPT !.pc = "killed"]]

\* main() returns (exit code 0), or sys.exit(1) after a fatal error
MainExit ==
    /\ main.at \in {"return", "fatal"}
    /\ main' = [main EXCEPT !.at = "exited"]
    /\ execConns' = Killed(execConns)
    /\ filesConns' = Killed(filesConns)
    /\ fwdConns' = [i \in DOMAIN fwdConns |->
          [Killed(fwdConns)[i] EXCEPT !.z2l = IF @ = "running" THEN "killed" ELSE @,
                                      !.l2z = IF @ = "running" THEN "killed" ELSE @]]
    /\ UNCHANGED <<ALLOWLIST, fsDirs, fsFiles, fwdConfig, shutdown_event, servers>>

(***************************************************************************)
(* The whole agent.                                                        *)
(***************************************************************************)
MaxAgentConns == 1

Init ==
    /\ DefaultConfig
    /\ main = [at |-> "start", k |-> 1]
    /\ shutdown_event = FALSE
    /\ servers = [s \in {Services[k] : k \in 1..3} |-> NoServer]
    /\ execConns = <<>> /\ filesConns = <<>> /\ fwdConns = <<>>
    /\ fsDirs = BaseDirs /\ fsFiles = NoFiles

Next ==
    \/ signal_handler
    \/ MainStartServer
    \/ MainWait
    \/ MainShutdown
    \/ \E k \in 1..3 : ServeForeverExit(Services[k])
    \/ MainShutdownReturn
    \/ MainServerClose
    \/ MainExit
    \/ Len(execConns) + Len(filesConns) + Len(fwdConns) < MaxAgentConns /\ ExecAccept
    \/ /\ Len(execConns) + Len(filesConns) + Len(fwdConns) < MaxAgentConns
       /\ Len(filesConns) < MaxFilesConns
       /\ \A j \in DOMAIN filesConns : filesConns[j].pc = "done"
       /\ FilesAccept
    \/ Len(execConns) + Len(filesConns) + Len(fwdConns) < MaxAgentConns /\ FwdAccept
    \/ \E i \in DOMAIN execConns : ExecPeerReset(i)
    \/ \E i \in DOMAIN execConns, line \in SiblingLines : ExecHandle(i, line)
    \/ \E i \in DOMAIN execConns, rc \in {0, 1} :
          ExecProcExit(i, rc, OutText(1), OutText(0), 0, TRUE)
    \/ \E i \in DOMAIN execConns : ExecTimeout(i, OutText(0), OutText(0), TIMEOUT_SECS)
    \/ \E i \in DOMAIN filesConns : FilesPeerReset(i)
    \/ \E i \in DOMAIN filesConns :
          FilesHandle(i, UploadLine(JStr(p_a), JStr(b64encode(<<98>>))))
    \/ \E i \in DOMAIN filesConns : FilesOpen(i)
    \/ \E i \in DOMAIN filesConns : FilesWrite(i)
    \/ \E i \in DOMAIN fwdConns : FwdHandle(i)
    \/ \E i \in DOMAIN fwdConns : fwdConns[i].clientSent < 1 /\ FwdClientSend(i, 1)
    \/ \E i \in DOMAIN fwdConns : FwdClientEnd(i)
    \/ \E i \in DOMAIN fwdConns : FwdTargetEnd(i)
    \/ \E i \in DOMAIN fwdConns : FwdPumpZ2L(i, TRUE)
    \/ \E i \in DOMAIN fwdConns : FwdPumpL2Z(i, TRUE)
    \/ \E i \in DOMAIN fwdConns : FwdJoin(i)

Spec == Init /\ [][Next]_vars

\* The main thread and the three serve_forever threads run when they can.
\* Nothing is assumed of the handler threads, of the peers or of the
\* processes the handlers wait for.
SpecShutdown ==
    /\ Spec
    /\ WF_vars(MainStartServer) /\ WF_vars(MainWait) /\ WF_vars(MainShutdown)
    /\ WF_vars(\E k \in 1..3 : ServeForeverExit(Services[k]))
    /\ WF_vars(MainShutdownReturn) /\ WF_vars(MainServerClose)

(***************************************************************************)
(* Properties                                                              *)
(***************************************************************************)
ExecDone(c) == c.pc = "done"

\* every response the connection received is ok:false with this error code
OnlyError(c, code) == \A k \in 1..Len(c.sent) : ~c.sent[k].ok /\ c.sent[k].error = code

\* the connection received exactly one response unless its peer reset it,
\* and then none
OneUnlessReset(c, reset) == Len(c.sent) = (IF reset THEN 0 ELSE 1)

CmdOf(c) == Get(c.line.obj, "cmd")

CmdAllowlisted(c) == CmdOf(c).t = "str" /\ InList(CmdOf(c).s, ALLOWLIST)

\* C1: an exec request (a JSON object) whose cmd is not in the command
\* allow-list is answered ok:false, error "validation", and no process is
\* spawned for its connection.
C1_NotAllowlistedIsRejectedUnspawned ==
    \A i \in DOMAIN execConns :
        LET c == execConns[i] IN
        (c.line.kind = "object" /\ ~CmdAllowlisted(c)) =>
            /\ ExecDone(c)
            /\ c.spawns = 0 /\ c.outcome = "none"
            /\ OnlyError(c, "validation")
            /\ OneUnlessReset(c, c.broken)

C1_Witness ==
    \E i \in DOMAIN execConns :
        LET c == execConns[i] IN
        /\ CmdOf(c) = JStr(rm) /\ ~CmdAllowlisted(c)
        /\ ExecDone(c) /\ Len(c.sent) = 1 /\ c.sent[1].error = "validation"
        /\ c.sent[1].message = MsgNotPermitted

HasSeparator(v) == v.t = "str" /\ \E k \in 1..Len(v.s) : v.s[k] = "/"

\* C2: a cmd that contains a path separator is rejected with the bare-name
\* message, whether or not the cmd or its basename is in the allow-list: the
\* bare-name check is decided before the allow-list check.
C2_SeparatorIsRejectedAsNotBare ==
    \A i \in DOMAIN execConns :
        LET c == execConns[i] IN
        (c.line.kind = "object" /\ HasSeparator(CmdOf(c))) =>
            /\ ExecDone(c)
            /\ c.spawns = 0
            /\ OnlyError(c, "validation")
            /\ \A k \in 1..Len(c.sent) : c.sent[k].message = MsgBareName
            /\ OneUnlessReset(c, c.broken)

\* a cmd with a separator that is itself in the allow-list, and one whose
\* basename is
C2_Witness ==
    /\ \E i \in DOMAIN execConns :
        LET c == execConns[i] IN
        /\ HasSeparator(CmdOf(c)) /\ CmdAllowlisted(c)
        /\ InList(basename(CmdOf(c).s), ALLOWLIST)
        /\ Len(c.sent) = 1 /\ c.sent[1].message = MsgBareName

(***************************************************************************)
(* Files: path sandbox, round trip, overwrite                              *)
(***************************************************************************)
OpOf(c) == Get(c.line.obj, "op")
PathOf(c) == Get(c.line.obj, "path")
DataOf(c) == Get(c.line.obj, "data")

IsUpload(c) == c.line.kind = "object" /\ OpOf(c) = JStr(upload)
IsDownload(c) == c.line.kind = "object" /\ OpOf(c) = JStr(download)

\* the path has a ".." segment and resolves outside the base directory
Escapes(path) ==
    /\ path.t = "str"
    /\ \E k \in 1..Len(Split(path.s)) : Split(path.s)[k] = dotdot
    /\ LET target == normpath(join(abspath(OPS_FILES_BASE_DIR), path.s))
       IN  /\ target # abspath(OPS_FILES_BASE_DIR)
           /\ ~StartsWith(target, abspath(OPS_FILES_BASE_DIR) \o <<"/">>)

\* C3 as stated: every upload and every download of a path with ".."
\* segments that resolves outside the base directory is answered
\* "path_forbidden" and leaves the file store as it was.
C3_EscapingPathIsForbidden ==
    \A i \in DOMAIN filesConns :
        LET c == filesConns[i] IN
        ((IsUpload(c) \/ IsDownload(c)) /\ Escapes(PathOf(c))) =>
            /\ c.pc = "done"
            /\ c.effects = {}
            /\ OnlyError(c, "path_forbidden")
            /\ OneUnlessReset(c, c.broken)

\* C3 as amended: a download, and an upload that carries non-empty data, of
\* such a path is answered "path_forbidden"; an upload whose data is missing
\* or empty is answered "validation"; the file store is left as it was.
C3_EscapingPathIsRejectedUnchanged ==
    \A i \in DOMAIN filesConns :
        LET c == filesConns[i] IN
        ((IsUpload(c) \/ IsDownload(c)) /\ Escapes(PathOf(c))) =>
            /\ c.pc = "done"
            /\ c.effects = {}
            /\ c.final_path = <<>>
            /\ OnlyError(c, IF IsUpload(c) /\ ~Truthy(DataOf(c))
                            THEN "validation" ELSE "path_forbidden")
            /\ OneUnlessReset(c, c.broken)

\* an upload of data to the sibling directory whose name extends the base
\* directory's, after an upload has put a file in the store
C3_Witness ==
    \E i \in DOMAIN filesConns :
        LET c == filesConns[i] IN
        /\ IsUpload(c) /\ PathOf(c) = JStr(p_up_oa) /\ Truthy(DataOf(c))
        /\ Len(c.sent) = 1 /\ c.sent[1].error = "path_forbidden"
        /\ \E j \in c.after : "write" \in filesConns[j].effects

\* C4: when the configured forward target's host or its port is outside
\* the forward allow-lists, every forward connection is answered "forbidden"
\* and no outbound socket is created or connected; each of the two checks
\* rejects on its own.
TargetAllowed ==
    /\ InList(OPS_FORWARD_DEFAULT_TARGET_HOST, OPS_FORWARD_ALLOWED_HOSTS)
    /\ InList(OPS_FORWARD_DEFAULT_TARGET_PORT, OPS_FORWARD_ALLOWED_PORTS)

C4_ForbiddenTargetIsNeverDialed ==
    \A i \in DOMAIN fwdConns :
        LET c == fwdConns[i] IN
        (~TargetAllowed /\ c.pc # "accepted") =>
            /\ c.pc = "done"
            /\ c.dials = 0 /\ c.local = "none" /\ c.target = <<>>
            /\ c.toTarget = <<>> /\ c.toClient = <<>>
            /\ \A k \in 1..Len(c.sent) : ~c.sent[k].ok /\ c.sent[k].error = "forbidden"
            /\ OneUnlessReset(c, c.reqReset)

\* the host is allowed and the port is not
C4_Witness ==
    /\ InList(OPS_FORWARD_DEFAULT_TARGET_HOST, OPS_FORWARD_ALLOWED_HOSTS)
    /\ ~InList(OPS_FORWARD_DEFAULT_TARGET_PORT, OPS_FORWARD_ALLOWED_PORTS)
    /\ \E i \in DOMAIN fwdConns :
        /\ fwdConns[i].pc = "done" /\ fwdConns[i].dials = 0
        /\ fwdConns[i].sent = <<FwdError("forbidden", MsgPortNotAllowed)>>

\* the path resolves to a place below the base directory
SandboxValid(path) ==
    /\ path.t = "str"
    /\ _safe_join(OPS_FILES_BASE_DIR, path.s).ok
    /\ _safe_join(OPS_FILES_BASE_DIR, path.s).target # abspath(OPS_FILES_BASE_DIR)

ResolvedPath(c) == _safe_join(OPS_FILES_BASE_DIR, PathOf(c).s).target

NoStorageFault(c) == c.fault = "none" /\ ~c.conflict

Touched(c) == c.effects \cap {"create", "truncate", "write"} # {}

\* Upload i of the bytes B to a sandbox-valid path succeeds, and a download
\* j of that path that follows it with no write to the path in between
\* succeeds, returns B and reports the sha256 the upload reported (the
\* storage failing neither of them, the peer resetting neither).
RoundTrip(i, B) ==
    LET u == filesConns[i] IN
    (/\ IsUpload(u) /\ u.pc = "done" /\ SandboxValid(PathOf(u))
     /\ DataOf(u) = JStr(b64encode(B))
     /\ NoStorageFault(u) /\ ~u.broken)
    => /\ Len(u.sent) = 1 /\ u.sent[1].ok
       /\ \A j \in DOMAIN filesConns :
            LET d == filesConns[j] IN
            (/\ IsDownload(d) /\ d.pc = "done" /\ i \in d.after
             /\ SandboxValid(PathOf(d)) /\ ResolvedPath(d) = ResolvedPath(u)
             /\ \A k \in DOMAIN filesConns :
                    (i < k /\ k < j /\ filesConns[k].final_path = ResolvedPath(u))
                        => ~Touched(filesConns[k])
             /\ d.fault = "none" /\ ~d.broken)
            => /\ Len(d.sent) = 1 /\ d.sent[1].ok
               /\ b64decode(JStr(d.sent[1].data)) = Decoded(B)
               /\ d.sent[1].size = Len(B)
               /\ d.sent[1].sha256 = u.sent[1].sha256

\* C5: round trip, for all byte strings B (the empty one among them) and all
\* sandbox-valid paths P: upload of B to P, then download of P, both
\* succeed, the bytes downloaded are B and the two sha256 are the same.
C5_RoundTripAllBytes ==
    \A i \in DOMAIN filesConns : \A B \in Payloads \cup {<<>>} : RoundTrip(i, B)

\* the round trip of the byte strings that are not empty
RoundTripNonEmpty ==
    \A i \in DOMAIN filesConns : \A B \in Payloads : RoundTrip(i, B)

RoundTripReached ==
    \E i, j \in DOMAIN filesConns :
        /\ IsUpload(filesConns[i]) /\ IsDownload(filesConns[j]) /\ i \in filesConns[j].after
        /\ PathOf(filesConns[i]) = JStr(p_a) /\ PathOf(filesConns[j]) = JStr(p_up_o_a)
        /\ Len(filesConns[j].sent) = 1 /\ filesConns[j].sent[1].ok
        /\ filesConns[j].sent[1].data = DataOf(filesConns[i]).s

\* C6: an upload to a path that an earlier upload has written succeeds (no
\* "already exists" error), and the file then holds the second payload
\* exactly, no byte of the first one, also when the second is the shorter.
C6_SecondUploadReplacesFirst ==
    \A i, j \in DOMAIN filesConns :
        LET u1 == filesConns[i]
            u2 == filesConns[j]
        IN
        (/\ i \in u2.after
         /\ IsUpload(u1) /\ "write" \in u1.effects /\ u1.fault = "none"
         /\ IsUpload(u2) /\ u2.pc = "done" /\ u2.fault = "none"
         /\ SandboxValid(PathOf(u2)) /\ ResolvedPath(u2) = u1.final_path
         /\ Truthy(DataOf(u2)) /\ b64decode(DataOf(u2)).ok)
        => /\ ~u2.conflict
           /\ \A k \in 1..Len(u2.sent) :
                /\ u2.sent[k].ok
                /\ u2.sent[k].size = Len(b64decode(DataOf(u2)).bytes)
           /\ OneUnlessReset(u2, u2.broken)
           /\ IsFile(fsFiles, u1.final_path)
           /\ fsFiles[u1.final_path].writer = j
                => fsFiles[u1.final_path].content = b64decode(DataOf(u2)).bytes

\* the second payload is shorter than the first
C6_Witness ==
    \E i, j \in DOMAIN filesConns :
        /\ i \in filesConns[j].after
        /\ IsUpload(filesConns[i]) /\ IsUpload(filesConns[j])
        /\ filesConns[i].final_path = filesConns[j].final_path
        /\ Len(filesConns[i].sent) = 1 /\ filesConns[i].sent[1].ok
        /\ Len(filesConns[j].sent) = 1 /\ filesConns[j].sent[1].ok
        /\ filesConns[i].data = <<97, 98>> /\ filesConns[j].data = <<98>>
        /\ fsFiles[filesConns[j].final_path].content = <<98>>

(***************************************************************************)
(* Responses                                                               *)
(***************************************************************************)
\* C7 as stated: on the exec and files services every connection receives
\* exactly one response, whatever the request and also when sending fails,
\* and is then closed by the server.
C7_ExactlyOneResponse ==
    /\ \A i \in DOMAIN execConns :
         execConns[i].pc = "done" => Len(execConns[i].sent) = 1 /\ execConns[i].closed
    /\ \A i \in DOMAIN filesConns :
         filesConns[i].pc = "done" => Len(filesConns[i].sent) = 1 /\ filesConns[i].closed

\* C7 as amended: every connection whose peer has not reset it receives
\* exactly one response, whatever the request and also when the result
\* cannot be serialized; a connection whose peer has reset it receives none;
\* no connection receives two; the server then closes the connection.
C7_OneResponseUnlessReset ==
    /\ \A i \in DOMAIN execConns :
         LET c == execConns[i] IN
         /\ Len(c.sent) <= 1
         /\ c.pc = "done" => c.closed /\ OneUnlessReset(c, c.broken)
    /\ \A i \in DOMAIN filesConns :
         LET c == filesConns[i] IN
         /\ Len(c.sent) <= 1
         /\ c.pc = "done" => c.closed /\ OneUnlessReset(c, c.broken)

\* a result that json.dumps rejects inside _send
C7_Witness ==
    \E i \in DOMAIN execConns :
        LET c == execConns[i] IN
        /\ c.pc = "done" /\ c.outcome = "timed_out" /\ c.captured.out # <<>>
        /\ Len(c.sent) = 1 /\ c.closed

ExecErrorCodes == {"validation", "timeout", "exec_error", "bad_json", "empty_request"}

\* C8: every ok:false response of the exec service carries an error code of
\* {validation, timeout, exec_error, bad_json, empty_request}, for every
\* request line.
C8_ExecErrorCodes ==
    \A i \in DOMAIN execConns : \A k \in 1..Len(execConns[i].sent) :
        ~execConns[i].sent[k].ok => execConns[i].sent[k].error \in ExecErrorCodes

FilesErrorCodes ==
    {"path_forbidden", "bad_base64", "io_error", "not_found", "validation", "unsupported_op"}

\* C9: every storage fault during an upload or a download (creating the
\* parent directories, opening, writing or reading the file) is reported as
\* "io_error", and every ok:false response of the files service carries an
\* error code of {path_forbidden, bad_base64, io_error, not_found,
\* validation, unsupported_op}.
C9_StorageFaultsAreIoErrors ==
    \A i \in DOMAIN filesConns :
        LET c == filesConns[i] IN
        /\ ~NoStorageFault(c) => OnlyError(c, "io_error")
        /\ \A k \in 1..Len(c.sent) : ~c.sent[k].ok => c.sent[k].error \in FilesErrorCodes

\* the faults of opening, writing and reading alone
FileFaultsAreIoErrors ==
    \A i \in DOMAIN filesConns :
        LET c == filesConns[i] IN
        c.fault \in {"open", "write", "read"} =>
            c.pc = "done" /\ OnlyError(c, "io_error") /\ OneUnlessReset(c, c.broken)

\* C10: a command that runs into the timeout is answered with the timeout
\* error: error "timeout", the message naming the configured timeout,
\* duration_ms at least the timeout, and as stdout and stderr what had been
\* captured of them when the timeout expired.
C10_TimeoutOutcome ==
    \A i \in DOMAIN execConns :
        LET c == execConns[i] IN
        (c.pc = "done" /\ c.outcome = "timed_out" /\ ~c.broken) =>
            /\ Len(c.sent) = 1
            /\ ~c.sent[1].ok /\ c.sent[1].error = "timeout"
            /\ c.sent[1].message = MsgTimeout
            /\ c.sent[1].duration_ms >= TIMEOUT_SECS * 1000
            /\ c.sent[1].stdout.v = Slice(c.captured.out, MAX_OUTPUT_CHARS)
            /\ c.sent[1].stderr.v = Slice(c.captured.err, MAX_OUTPUT_CHARS)

\* the timeout outcome of a command that had written nothing
TimeoutOutcomeOfSilentCommand ==
    \A i \in DOMAIN execConns :
        LET c == execConns[i] IN
        (/\ c.pc = "done" /\ c.outcome = "timed_out" /\ ~c.broken
         /\ c.captured.out = <<>> /\ c.captured.err = <<>>) =>
            /\ Len(c.sent) = 1
            /\ ~c.sent[1].ok /\ c.sent[1].error = "timeout"
            /\ c.sent[1].duration_ms >= TIMEOUT_SECS * 1000

(***************************************************************************)
(* Exec outcomes                                                           *)
(***************************************************************************)
\* C11: whenever a validated command is spawned and terminates within the
\* timeout, the response is ok:true with the exit code of the process, for
\* every exit code; ok:false comes only of validation, protocol, timeout or
\* spawn failures, never of a process that ran to its end.
C11_CompletedIsOkWithExitCode ==
    \A i \in DOMAIN execConns :
        LET c == execConns[i] IN
        (c.pc = "done" /\ c.spawns = 1 /\ c.outcome = "completed") =>
            /\ OneUnlessReset(c, c.broken)
            /\ \A k \in 1..Len(c.sent) : c.sent[k].ok /\ c.sent[k].exit_code = c.rc

\* the same of the processes whose output subprocess.run could decode
CompletedAndDecodedIsOk ==
    \A i \in DOMAIN execConns :
        LET c == execConns[i] IN
        (c.pc = "done" /\ c.spawns = 1 /\ c.outcome = "completed" /\ c.decoded) =>
            /\ OneUnlessReset(c, c.broken)
            /\ \A k \in 1..Len(c.sent) :
                 /\ c.sent[k].ok /\ c.sent[k].exit_code = c.rc
                 /\ c.sent[k].keys = {"ok", "exit_code", "stdout", "stderr", "duration_ms"}

NonZeroExitReached ==
    \E i \in DOMAIN execConns :
        /\ execConns[i].outcome = "completed" /\ execConns[i].rc = 1
        /\ Len(execConns[i].sent) = 1 /\ execConns[i].sent[1].ok
        /\ execConns[i].sent[1].exit_code = 1

(***************************************************************************)
(* Handler faults                                                          *)
(***************************************************************************)
\* a step of one handler leaves every other connection as it was
OneConnectionAtATime ==
    \A i, j \in DOMAIN execConns :
        (i # j /\ execConns'[i] # execConns[i]) => execConns'[j] = execConns[j]

\* C12: a fault raised in one connection handler, an exception raised while
\* sending the error response itself included, never ends the accept loop
\* of the listener and never touches another connection: the listener
\* keeps accepting, and every other handler still completes.
C12_HandlerFaultsStayLocal ==
    /\ [](servers["exec"] = Serving /\ Accepting("exec"))
    /\ [][OneConnectionAtATime]_vars
    /\ \A i \in 1..MaxSiblings :
         (Len(execConns) >= i) ~> (Len(execConns) >= i /\ execConns[i].pc = "done")

\* a connection accepted after an exception had left a sibling's handle()
\* has been served
C12_Witness ==
    \E i, j \in DOMAIN execConns :
        /\ execConns[i].raised /\ i \in execConns[j].afterFaults
        /\ execConns[j].pc = "done" /\ Len(execConns[j].sent) = 1 /\ execConns[j].sent[1].ok

(***************************************************************************)
(* Listeners                                                               *)
(***************************************************************************)
\* The state of a listener: 0 Starting (no socket yet), 1 Listening,
\* 2 Draining (shutdown requested, the socket still open), 3 Stopped (the
\* socket closed).
ListenerState(srv) ==
    IF srv.sock = "none" THEN 0
    ELSE IF srv.sock = "closed" THEN 3
    ELSE IF srv.shutdown_request THEN 2
    ELSE 1

ConnsOf(s, e, f, w) == IF s = "exec" THEN e ELSE IF s = "files" THEN f ELSE w

ListenerStep(s) ==
    /\ ListenerState(servers'[s]) \in {ListenerState(servers[s]), ListenerState(servers[s]) + 1}
    /\ ListenerState(servers[s]) >= 2 =>
          ConnsOf(s, Len(execConns'), Len(filesConns'), Len(fwdConns'))
            = ConnsOf(s, Len(execConns), Len(filesConns), Len(fwdConns))

\* C13: each listener moves only along Starting -> Listening -> Draining ->
\* Stopped and never back; a listener that is Draining accepts no new
\* connection; its listening socket is closed only after its accept loop
\* has stopped.
C13_ListenerLifecycle ==
    /\ [][\A k \in 1..3 : ListenerStep(Services[k])]_vars
    /\ [](\A k \in 1..3 : servers[Services[k]].sock = "closed"
                            => servers[Services[k]].loop = "stopped")

\* the exec listener has served a connection and is Stopped
C13_Witness ==
    /\ ListenerState(servers["exec"]) = 3
    /\ Len(execConns) = 1 /\ execConns[1].pc = "done" /\ Len(execConns[1].sent) = 1

\* a connection handler that the end of the process has cut short
CutShort(c) == c.pc = "killed"

\* C14: the shutdown sequence lets the connections that were accepted run
\* to their natural end: when the process ends after a shutdown, no exec,
\* files or forward handler has been ended before it had sent its response
\* or finished its relay.
C14_ShutdownLetsHandlersFinish ==
    (main.at = "exited" /\ main.k = 0) =>
        /\ \A i \in DOMAIN execConns : ~CutShort(execConns[i])
        /\ \A i \in DOMAIN filesConns : ~CutShort(filesConns[i])
        /\ \A i \in DOMAIN fwdConns : ~CutShort(fwdConns[i])

\* a forward connection whose dial has succeeded
Dialed(c) == c.dials = 1 /\ c.z2l # "idle"

\* C15: after a successful dial the forward handler returns, and the
\* accepted stream and the stream to the target are fully closed, only after
\* both pump directions have completed; neither stream is fully closed
\* while a pump is still running.
C15_ClosedOnlyAfterBothPumps ==
    \A i \in DOMAIN fwdConns :
        LET c == fwdConns[i] IN
        (Dialed(c) /\ (c.pc = "done" \/ c.closed \/ c.local = "closed"))
            => (c.z2l = "done" /\ c.l2z = "done")

\* a session that relayed bytes both ways has returned with both streams
\* closed, its second pump having ended after bytes of its own
C15_Witness ==
    \E i \in DOMAIN fwdConns :
        LET c == fwdConns[i] IN
        /\ Dialed(c) /\ c.pc = "done" /\ c.closed /\ c.local = "closed"
        /\ c.z2l = "done" /\ c.l2z = "done"
        /\ c.toClient # <<>> /\ c.toTarget # <<>> /\ c.late > 0

\* what a pump has read since the state before the step
NewBytes(before, after) == SubSeq(after, Len(before) + 1, Len(after))

\* the sessions that were open before a step and are open after it
Both(i) == i \in DOMAIN fwdConns /\ i \in DOMAIN fwdConns'

\* C16: when a pump direction ends, by a zero-length read or by an error,
\* exactly the write half of its destination is shut down and neither
\* stream is closed; the write half of a destination is not shut down while
\* its pump runs; and the opposite direction goes on delivering to its
\* destination every chunk it reads.
C16_HalfClose ==
    /\ [](\A i \in DOMAIN fwdConns :
            LET c == fwdConns[i] IN
            c.pc = "relaying" =>
                /\ c.z2l = "done" => (c.locShutWr /\ c.local = "open" /\ ~c.closed)
                /\ c.l2z = "done" => (c.reqShutWr /\ c.local = "open" /\ ~c.closed)
                /\ c.z2l = "running" => ~c.locShutWr
                /\ c.l2z = "running" => ~c.reqShutWr)
    /\ [][\A i \in 1..MaxFwdConns : Both(i) =>
            LET c == fwdConns[i]
                d == fwdConns'[i]
            IN  /\ (c.z2l = "done" /\ d.l2z = "running" /\ d.fromTarget # c.fromTarget)
                      => d.toClient = c.toClient \o NewBytes(c.fromTarget, d.fromTarget)
                /\ (c.l2z = "done" /\ d.z2l = "running" /\ d.fromClient # c.fromClient)
                      => d.toTarget = c.toTarget \o NewBytes(c.fromClient, d.fromClient)]_vars

\* the client has closed its sending side, the target has been told so and
\* no more, and the target's bytes have reached the client after that
C16_Witness ==
    \E i \in DOMAIN fwdConns :
        LET c == fwdConns[i] IN
        /\ c.pc = "relaying" /\ c.z2l = "done" /\ c.z2lEnd = "eof" /\ c.l2z = "running"
        /\ c.locShutWr /\ ~c.reqShutWr /\ c.local = "open" /\ ~c.closed
        /\ c.late > 0 /\ c.toClient # <<>>

\* a step that ends the pump of one direction has a cause in that
\* direction: its source is at EOF, reset or silent, or its write failed
OwnEnd(running, ended, reset, pending, readBefore, readAfter) ==
    (running /\ ended) => (reset \/ pending = <<>> \/ readAfter # readBefore)

\* both sources of a session have reached EOF or failed
SourcesEnded(i) ==
    /\ i \in DOMAIN fwdConns /\ fwdConns[i].pc = "relaying"
    /\ fwdConns[i].reqEof \/ fwdConns[i].reqReset
    /\ fwdConns[i].locEof \/ fwdConns[i].locReset

\* the handler of a session has returned with both pumps finished
SessionEnded(i) ==
    /\ i \in DOMAIN fwdConns /\ fwdConns[i].pc = "done"
    /\ fwdConns[i].z2l = "done" /\ fwdConns[i].l2z = "done"

Relayed(written, read, end) ==
    /\ IsPrefix(written, read)
    /\ end # "write_error" => written = read

\* every session writes to each side the bytes it read from the other side,
\* and reads from the client the bytes the client sent
ExactRelay ==
    \A i \in DOMAIN fwdConns :
        LET c == fwdConns[i] IN
        /\ Relayed(c.toTarget, c.fromClient, c.z2lEnd)
        /\ Relayed(c.toClient, c.fromTarget, c.l2zEnd)
        /\ IsPrefix(c.fromClient, ClientBytes[c.payload])
        /\ IsPrefix(c.fromTarget, TargetBytes)

ArgsOf(c) == GetOrEmptyList(c.line.obj, "args")

\* a string of at most 4096 characters without a null byte
GoodArg(a) ==
    a.t = "str" /\ Len(a.s) <= 4096 /\ \A k \in 1..Len(a.s) : a.s[k] # "NUL"

\* the request names an allow-listed bare command and carries an args that
\* is not a sequence of good arguments
HasBadArgs(c) ==
    /\ c.line.kind = "object" /\ CmdAllowlisted(c) /\ ~HasSeparator(CmdOf(c))
    /\ ArgsOf(c).t = "list" => \E k \in 1..Len(ArgsOf(c).l) : ~GoodArg(ArgsOf(c).l[k])

\* the request names an allow-listed bare command and carries the one
\* argument a
HasOneArg(c, a) ==
    /\ c.line.kind = "object" /\ CmdAllowlisted(c) /\ ~HasSeparator(CmdOf(c))
    /\ ArgsOf(c) = JList(<<a>>)

\* the request was refused by validation, with a message out of msgs, and
\* nothing was spawned for it
RejectedWith(c, msgs) ==
    /\ ExecDone(c) /\ c.spawns = 0 /\ c.outcome = "none"
    /\ OnlyError(c, "validation") /\ OneUnlessReset(c, c.broken)
    /\ \A k \in 1..Len(c.sent) : c.sent[k].message \in msgs

\* validation let the request through
NotRefused(c) == \A k \in 1..Len(c.sent) : c.sent[k].ok \/ c.sent[k].error # "validation"

LongestArgSpawned ==
    \E i \in DOMAIN execConns :
        HasOneArg(execConns[i], LongArg(4096)) /\ execConns[i].spawns = 1

\* connection i is an upload that was answered ok:true
UploadOk(i) ==
    /\ filesConns[i].pc = "done" /\ Len(filesConns[i].sent) = 1
    /\ filesConns[i].sent[1].ok /\ "size" \in filesConns[i].sent[1].keys
    /\ "data" \notin filesConns[i].sent[1].keys

\* several uploads to the path p have run side by side and all of them
\* were answered ok:true
AllUploadedTo(p) ==
    /\ Len(filesConns) >= 2
    /\ \A i \in DOMAIN filesConns : UploadOk(i) /\ filesConns[i].final_path = p

\* C21: when several uploads to one path run concurrently, after all of
\* them have completed with ok:true the file holds the complete payload of
\* exactly one of them, never a mixture of bytes of two payloads, and the
\* sha256 and the size that upload reported describe the stored file.
C21_LastWriterWins ==
    \A p \in DOMAIN fsFiles :
        AllUploadedTo(p) =>
            \E i \in DOMAIN filesConns :
                /\ fsFiles[p].content = filesConns[i].data
                /\ filesConns[i].sent[1].sha256 = sha256(fsFiles[p].content)
                /\ filesConns[i].sent[1].size = Len(fsFiles[p].content)

\* what does hold of such uploads: the file begins with the complete
\* payload of the upload that wrote last
LastWriterIsPrefix ==
    \A p \in DOMAIN fsFiles :
        AllUploadedTo(p) =>
            IsPrefix(filesConns[fsFiles[p].writer].data, fsFiles[p].content)

\* two uploads have both been answered ok:true and the file holds a byte of
\* each payload
MixtureReached ==
    \E p \in DOMAIN fsFiles :
        /\ AllUploadedTo(p)
        /\ \A i \in DOMAIN filesConns : fsFiles[p].content # filesConns[i].data

\* every listener has stopped accepting and its listening socket is closed
AllListenersClosed ==
    \A k \in 1..3 :
        /\ servers[Services[k]].loop = "stopped" /\ servers[Services[k]].sock = "closed"
        /\ ~Accepting(Services[k])

\* the start-up failed: main() left through sys.exit(1)
StartFailed == main.at \in {"fatal", "exited"} /\ main.k = 1

\* a handler is in flight
InFlight ==
    \/ \E i \in DOMAIN execConns : execConns[i].pc \notin Ended
    \/ \E i \in DOMAIN filesConns : filesConns[i].pc \notin Ended
    \/ \E i \in DOMAIN fwdConns : fwdConns[i].pc \notin Ended

\* C22: after the shutdown signal the shutdown sequence eventually
\* completes: the three listeners stop accepting and their listening
\* sockets are closed, whether or not the handlers in flight ever make
\* another step, unless the start-up itself failed.
C22_ShutdownCompletes ==
    shutdown_event ~> (AllListenersClosed \/ StartFailed)

\* the listeners are closed and main() is about to return while a relay
\* session is still in flight
C22_Witness ==
    /\ shutdown_event /\ AllListenersClosed /\ main.at = "return"
    /\ \E i \in DOMAIN fwdConns : fwdConns[i].pc = "relaying" /\ fwdConns[i].z2l = "running"

\* C23: the command allow-list, the forward-host allow-list and the
\* forward-port allow-list are never modified after start-up: every step of
\* every exec, files and forward handler, whatever the requests and however
\* the handlers interleave, leaves the three of them unchanged.
C23_AllowlistsAreNeverModified ==
    [][/\ ALLOWLIST' = ALLOWLIST
       /\ OPS_FORWARD_ALLOWED_HOSTS' = OPS_FORWARD_ALLOWED_HOSTS
       /\ OPS_FORWARD_ALLOWED_PORTS' = OPS_FORWARD_ALLOWED_PORTS]_vars

\* a forward session has consulted the allow-lists, relayed and returned,
\* and the allow-lists are those of the start-up
C23_Witness ==
    /\ ALLOWLIST = DEFAULT_ALLOWLIST
    /\ OPS_FORWARD_ALLOWED_HOSTS = DefaultForwardHosts
    /\ OPS_FORWARD_ALLOWED_PORTS = DefaultForwardPorts
    /\ \E i \in DOMAIN fwdConns : fwdConns[i].dials = 1 /\ fwdConns[i].pc = "done"

\* the field of a response is the captured output of its stream cut to the
\* maximum: a prefix of it, as long as the maximum allows and no longer
CutToMax(field, captured) ==
    /\ Len(field.v) <= MAX_OUTPUT_CHARS
    /\ IsPrefix(field.v, captured)
    /\ Len(field.v) = Len(captured) \/ Len(field.v) = MAX_OUTPUT_CHARS

\* C24: in every exec response that carries stdout or stderr, of a
\* completed command and of a timed-out one alike, each of the two fields
\* is at most MAX_OUTPUT_CHARS long and is a prefix of what was captured of
\* its stream; each stream is cut by itself, whatever the length of the
\* other.
C24_OutputIsTruncatedPerStream ==
    \A i \in DOMAIN execConns :
        LET c == execConns[i] IN
        \A k \in 1..Len(c.sent) :
            /\ "stdout" \in c.sent[k].keys => CutToMax(c.sent[k].stdout, c.captured.out)
            /\ "stderr" \in c.sent[k].keys => CutToMax(c.sent[k].stderr, c.captured.err)

\* a response whose stdout is whole, being as long as the maximum, and
\* whose stderr is cut
C24_Witness ==
    \E i \in DOMAIN execConns :
        LET c == execConns[i] IN
        /\ Len(c.sent) = 1 /\ c.sent[1].ok /\ "stdout" \in c.sent[1].keys
        /\ Len(c.captured.out) = MAX_OUTPUT_CHARS /\ c.sent[1].stdout.v = c.captured.out
        /\ Len(c.captured.err) > MAX_OUTPUT_CHARS
        /\ Len(c.sent[1].stderr.v) = MAX_OUTPUT_CHARS

\* a timeout response that carries stdout and stderr has been sent
TimeoutResponseReached ==
    \E i \in DOMAIN execConns :
        /\ Len(execConns[i].sent) = 1 /\ execConns[i].sent[1].error = "timeout"
        /\ "stdout" \in execConns[i].sent[1].keys

\* validate_command accepts the request of the connection
Accepted(c) ==
    c.line.kind = "object" /\ validate_command(CmdOf(c), ArgsOf(c)).ok

\* the argument vector validation stands for: the command, followed by the
\* strings of args, none when args is null
ValidatedArgv(c) ==
    <<validate_command(CmdOf(c), ArgsOf(c)).base>>
        \o (IF ArgsOf(c).t = "list"
            THEN [k \in 1..Len(ArgsOf(c).l) |-> ArgsOf(c).l[k].s]
            ELSE <<>>)

\* C25: whenever validate_command accepts a request, the process is spawned
\* with exactly the command followed by the validated strings; a request
\* whose args is null, which validation accepts as the empty list, is run
\* as the command without arguments and does not end in an error.
C25_AcceptedIsSpawnedAsValidated ==
    \A i \in DOMAIN execConns :
        LET c == execConns[i] IN
        (c.pc # "accepted" /\ Accepted(c)) =>
            /\ c.spawns = 1 => c.argv = ValidatedArgv(c)
            /\ ArgsOf(c).t = "null" =>
                  /\ c.spawns = 1 /\ c.argv = ValidatedArgv(c)
                  /\ \A k \in 1..Len(c.sent) : c.sent[k].error # "exec_error"

\* what holds: a process that is spawned has the validated argument vector,
\* and a request whose args is null spawns none and is answered exec_error
SpawnedAsValidatedUnlessNull ==
    \A i \in DOMAIN execConns :
        LET c == execConns[i] IN
        (c.pc # "accepted" /\ Accepted(c)) =>
            /\ c.spawns = 1 => (c.argv = ValidatedArgv(c) /\ ArgsOf(c).t = "list")
            /\ ArgsOf(c).t = "null" =>
                  /\ c.spawns = 0 /\ c.pc = "done"
                  /\ \A k \in 1..Len(c.sent) : c.sent[k].error = "exec_error"

\* a request with an argument has been spawned with it
ArgvWithArgumentReached ==
    \E i \in DOMAIN execConns :
        execConns[i].spawns = 1 /\ execConns[i].argv = <<ls, <<"x">> >>

\* handle() has returned after it created a local socket
ReturnedWithLocal(c) == c.pc = "done" /\ c.local # "none"

\* C26: every local socket the forward handler creates is closed before the
\* handler returns, after a completed relay and also when the connect to
\* the target fails or times out.
C26_LocalSocketIsClosedOnReturn ==
    \A i \in DOMAIN fwdConns :
        ReturnedWithLocal(fwdConns[i]) => fwdConns[i].local = "closed"

\* what holds: the handler closes the local socket after a relay, and
\* returns with it open exactly when the connect failed
LocalSocketIsClosedAfterRelayOnly ==
    \A i \in DOMAIN fwdConns :
        LET c == fwdConns[i] IN
        ReturnedWithLocal(c) =>
            /\ Dialed(c) => c.local = "closed"
            /\ ~Dialed(c) =>
                  /\ c.local = "open"
                  /\ \A k \in 1..Len(c.sent) : c.sent[k].error = "connect_failed"

\* a relay has completed and its local socket is closed
RelayClosedReached ==
    \E i \in DOMAIN fwdConns :
        ReturnedWithLocal(fwdConns[i]) /\ Dialed(fwdConns[i])
            /\ fwdConns[i].local = "closed"

\* the upload of the connection was answered with the error code
UploadAnswered(c, code) ==
    /\ IsUpload(c) /\ c.pc = "done"
    /\ \E k \in 1..Len(c.sent) : ~c.sent[k].ok /\ c.sent[k].error = code

\* C27: an upload that is answered "validation", "path_forbidden" or
\* "bad_base64" leaves the file store unchanged: no file is created or
\* truncated and no directory is created before the path is resolved and
\* the payload is decoded.
C27_RejectedUploadLeavesStoreUnchanged ==
    \A i \in DOMAIN filesConns :
        (\E code \in {"validation", "path_forbidden", "bad_base64"} :
            UploadAnswered(filesConns[i], code))
        => filesConns[i].effects = {}

\* what holds: a rejected upload touches no file; one answered "validation"
\* or "path_forbidden" changes nothing, one answered "bad_base64" may have
\* created the directories of its path
RejectedUploadTouchesNoFile ==
    \A i \in DOMAIN filesConns :
        LET c == filesConns[i] IN
        /\ (UploadAnswered(c, "validation") \/ UploadAnswered(c, "path_forbidden"))
              => c.effects = {}
        /\ UploadAnswered(c, "bad_base64") => c.effects \subseteq {"mkdir"}

\* an upload answered "bad_base64" has left a new directory in the store
DirectoryOfBadBase64Reached ==
    \E i \in DOMAIN filesConns :
        /\ UploadAnswered(filesConns[i], "bad_base64")
        /\ "mkdir" \in filesConns[i].effects
        /\ fsDirs # BaseDirs /\ fsFiles = NoFiles

====
